---------------------------- MODULE Spec2Model ----------------------------
(***************************************************************************)
(* Model of the tax computation engine (engines/fiscal_engine.py), of the  *)
(* SPED compliance audit engine (engines/sped_engine.py) with its          *)
(* orchestration (services/auditoria_service.py), of the document          *)
(* recognition engine (engines/ocr_engine.py) and of the processing of     *)
(* uploaded documents (services/documento_service.py with the parsers of   *)
(* utils/parsers, and services/ocr_service.py).                            *)
(*                                                                         *)
(* The engines are stateless: a behaviour is one invocation.  Init draws   *)
(* the invocation (operation and arguments) from bounded sets, and one     *)
(* action per operation runs the whole operation and stores what it        *)
(* returns.                                                                *)
(*                                                                         *)
(* chamada is the invocation, retorno what it returned ("PENDENTE" before  *)
(* it returns), andamento the locals of an operation between its steps,    *)
(* auditorias the documents inserted into db.auditorias, documentos and    *)
(* obrigacoes the collections db.documentos and db.obrigacoes,             *)
(* ocr_documentos the documents inserted into db.ocr_documentos.           *)
(*                                                                         *)
(* Units.  revenue_12m is a whole number of reais, monthly revenue a whole *)
(* number of centavos, fator_r a whole number of 1/10000, a nominal rate a *)
(* whole number of 1/1000 (the table's percentages have one decimal).      *)
(* Python Decimal values are modelled digit by digit (a 28-digit           *)
(* coefficient does not fit TLC's 32-bit integers): [neg, dig, exp] is     *)
(* (-1)^neg * dig * 10^exp, dig the decimal digits, most significant       *)
(* first, <<>> for zero.  The floats a result carries are modelled by the  *)
(* Decimal they are converted from: float(aliquota_efetiva * 100) by that  *)
(* Decimal, float(valor_das) by the amount in centavos.                    *)
(***************************************************************************)
EXTENDS Integers, Sequences, FiniteSets, TLC

VARIABLES chamada, retorno, andamento, auditorias, documentos, obrigacoes,
          ocr_documentos

vars ==
    <<chamada, retorno, andamento, auditorias, documentos, obrigacoes,
      ocr_documentos>>

\* the collections of the database
db == <<auditorias, documentos, obrigacoes, ocr_documentos>>

\* an Optional value: None, or Some(v)
None == <<>>
Some(v) == <<v>>

(***************************************************************************)
(* Bounds of the model.                                                    *)
(***************************************************************************)
\* revenue_12m is drawn within Delta of every bracket ceiling
Delta == 1
\* ledger counters are drawn from 0..MaxContador
MaxContador == 1
\* the simulated parser's entry-note count is drawn from
\* NOTAS_MIN..NOTAS_MIN+MaxNotasSim
MaxNotasSim == 1
\* counters of a directly supplied summary are drawn from 0..MaxContagem
MaxContagem == 7
\* all orders of findings are drawn for lists of up to MaxLista findings
MaxLista == 3
\* lists of up to MaxPorSeveridade findings of each severity are drawn
MaxPorSeveridade == 11

(***************************************************************************)
(* decimal.Decimal, default context: 28 significant digits, ROUND_HALF_EVEN*)
(***************************************************************************)
Prec == 28

RECURSIVE DigitsOf(_)
DigitsOf(n) == IF n = 0 THEN <<>> ELSE Append(DigitsOf(n \div 10), n % 10)

RECURSIVE ValueOf(_)
ValueOf(dig) ==
    IF dig = <<>> THEN 0
    ELSE 10 * ValueOf(SubSeq(dig, 1, Len(dig) - 1)) + dig[Len(dig)]

RECURSIVE Zeros(_)
Zeros(k) == IF k <= 0 THEN <<>> ELSE Append(Zeros(k - 1), 0)

RECURSIVE StripLeading(_)
StripLeading(dig) ==
    IF dig # <<>> /\ dig[1] = 0 THEN StripLeading(Tail(dig)) ELSE dig

\* dig + 1 on digit sequences
RECURSIVE Incr(_)
Incr(dig) ==
    IF dig = <<>> THEN <<1>>
    ELSE IF dig[Len(dig)] < 9
         THEN [dig EXCEPT ![Len(dig)] = @ + 1]
         ELSE Append(Incr(SubSeq(dig, 1, Len(dig) - 1)), 0)

\* the value with its trailing zeros moved into the exponent
RECURSIVE Normalize(_)
Normalize(d) ==
    IF d.dig = <<>> THEN [neg |-> FALSE, dig |-> <<>>, exp |-> 0]
    ELSE IF d.dig[Len(d.dig)] = 0
         THEN Normalize([d EXCEPT !.dig = SubSeq(d.dig, 1, Len(d.dig) - 1),
                                  !.exp = d.exp + 1])
         ELSE d

DecFromInt(n, e) ==
    [neg |-> n < 0, dig |-> DigitsOf(IF n < 0 THEN -n ELSE n), exp |-> e]

AnyNonZero(dig, from) == \E i \in from..Len(dig) : dig[i] # 0

\* dig cut to its first `keep` digits (keep >= 0), rounded half to even;
\* sticky: something nonzero follows dig
RoundHalfEven(dig, keep, sticky) ==
    LET kept == SubSeq(dig, 1, keep)
        g    == dig[keep + 1]
        rest == sticky \/ AnyNonZero(dig, keep + 2)
        odd  == keep > 0 /\ dig[keep] % 2 = 1
        up   == g > 5 \/ (g = 5 /\ (rest \/ odd))
    IN IF up THEN Incr(kept) ELSE kept

\* the same cut, rounded half up (half away from zero on the magnitude)
RoundHalfUp(dig, keep) ==
    LET kept == SubSeq(dig, 1, keep)
    IN IF dig[keep + 1] >= 5 THEN Incr(kept) ELSE kept

\* the context's rounding of an exact result to Prec digits
ContextRound(d, sticky) ==
    IF Len(d.dig) <= Prec THEN d
    ELSE [d EXCEPT !.dig = RoundHalfEven(d.dig, Prec, sticky),
                   !.exp = d.exp + (Len(d.dig) - Prec)]

\* long division: the quotient's digits from the first nonzero one, one
\* more than Prec of them unless the division ends before
RECURSIVE DivLoop(_, _, _, _)
DivLoop(r, d, acc, frac) ==
    IF r = 0 \/ Len(acc) = Prec + 1
    THEN [dig |-> acc, frac |-> frac, rem |-> r]
    ELSE LET x == (r * 10) \div d
         IN DivLoop((r * 10) % d, d,
                    IF acc = <<>> /\ x = 0 THEN acc ELSE Append(acc, x),
                    frac + 1)

\* Decimal(n) * 10^e / Decimal(d), for integers n >= 0 and d > 0
DecDiv(n, e, d) ==
    LET q == DivLoop(n % d, d, DigitsOf(n \div d), 0)
    IN Normalize(ContextRound(
           [neg |-> FALSE, dig |-> q.dig, exp |-> e - q.frac], q.rem # 0))

\* dig * m for an integer m >= 0, least significant digit first
RECURSIVE MulLoop(_, _, _, _, _)
MulLoop(dig, m, i, carry, acc) ==
    IF i = 0 THEN DigitsOf(carry) \o acc
    ELSE LET t == dig[i] * m + carry
         IN MulLoop(dig, m, i - 1, t \div 10, <<t % 10>> \o acc)

\* a * b for Decimals, a's coefficient small enough to be an integer
DecMul(a, b) ==
    LET p == StripLeading(MulLoop(b.dig, ValueOf(a.dig), Len(b.dig), 0, <<>>))
    IN ContextRound([neg |-> (a.neg # b.neg) /\ p # <<>>,
                     dig |-> p, exp |-> a.exp + b.exp], FALSE)

\* a < b for Decimals that are not negative
DecLess(a, b) ==
    LET la == Len(a.dig)
        lb == Len(b.dig)
        n  == IF la > lb THEN la ELSE lb
        pa == a.dig \o Zeros(n - la)
        pb == b.dig \o Zeros(n - lb)
    IN IF b.dig = <<>> THEN FALSE
       ELSE IF a.dig = <<>> THEN TRUE
       ELSE IF a.exp + la # b.exp + lb THEN a.exp + la < b.exp + lb
       ELSE \E i \in 1..n : /\ pa[i] < pb[i]
                            /\ \A j \in 1..(i - 1) : pa[j] = pb[j]

\* max(a, b), b not negative
DecMax(a, b) == IF a.neg \/ DecLess(a, b) THEN b ELSE a

\* the magnitude of d in hundredths, before rounding: the digits kept and
\* the digits dropped (k of them), as one digit sequence
CentavosDigits(d) == Zeros(((-2) - d.exp) - Len(d.dig) + 1) \o d.dig

\* d.quantize(Decimal("0.01")) under the default rounding, ROUND_HALF_EVEN
QuantizeCentavosHalfEven(d) ==
    LET k    == (-2) - d.exp
        full == CentavosDigits(d)
        mag  == IF k <= 0 THEN ValueOf(d.dig \o Zeros(-k))
                ELSE ValueOf(RoundHalfEven(full, Len(full) - k, FALSE))
    IN IF d.neg THEN -mag ELSE mag

\* d.quantize(Decimal("0.01"), rounding=ROUND_HALF_UP), in centavos
QuantizeCentavos(d) ==
    LET k    == (-2) - d.exp
        full == CentavosDigits(d)
        mag  == IF k <= 0 THEN ValueOf(d.dig \o Zeros(-k))
                ELSE ValueOf(RoundHalfUp(full, Len(full) - k))
    IN IF d.neg THEN -mag ELSE mag

(***************************************************************************)
(* engines/fiscal_engine.py                                                *)
(***************************************************************************)
Faixa(l, a, d) == [limite |-> l, aliquota |-> a, deducao |-> d]

ANEXO_I ==
    << Faixa(180000, 40, 0),       Faixa(360000, 73, 5940),
       Faixa(720000, 95, 13860),   Faixa(1800000, 107, 22500),
       Faixa(3600000, 143, 87300), Faixa(4800000, 190, 378000) >>

ANEXO_II ==
    << Faixa(180000, 45, 0),       Faixa(360000, 78, 5940),
       Faixa(720000, 100, 13860),  Faixa(1800000, 112, 22500),
       Faixa(3600000, 147, 85500), Faixa(4800000, 300, 720000) >>

ANEXO_III ==
    << Faixa(180000, 60, 0),        Faixa(360000, 112, 9360),
       Faixa(720000, 135, 17640),   Faixa(1800000, 160, 35640),
       Faixa(3600000, 210, 125640), Faixa(4800000, 330, 648000) >>

\* annex IV without its last bracket
ANEXO_IV_SemUltimaFaixa ==
    << Faixa(180000, 45, 0),       Faixa(360000, 90, 8100),
       Faixa(720000, 102, 12420),   Faixa(1800000, 140, 39780),
       Faixa(3600000, 220, 183780) >>

ANEXO_IV ==
    << Faixa(180000, 45, 0),        Faixa(360000, 90, 8100),
       Faixa(720000, 102, 12420),   Faixa(1800000, 140, 39780),
       Faixa(3600000, 220, 183780), Faixa(4800000, 330, 828000) >>

ANEXO_V ==
    << Faixa(180000, 155, 0),      Faixa(360000, 180, 4500),
       Faixa(720000, 195, 9900),   Faixa(1800000, 205, 17100),
       Faixa(3600000, 230, 62100), Faixa(4800000, 305, 540000) >>

\* the table with one deduction's sign mistyped
TABELA_SIMPLES_SinalTrocado ==
    [anexo_i   |-> [ANEXO_I EXCEPT ![2].deducao = -5940],
     anexo_ii  |-> ANEXO_II,
     anexo_iii |-> [ANEXO_III EXCEPT ![2].deducao = -9360],
     anexo_iv  |-> ANEXO_IV,
     anexo_v   |-> ANEXO_V]

TABELA_SIMPLES ==
    [anexo_i   |-> ANEXO_I,
     anexo_ii  |-> ANEXO_II,
     anexo_iii |-> ANEXO_III,
     anexo_iv  |-> ANEXO_IV,
     anexo_v   |-> ANEXO_V]

SUBLIMITE_ESTADUAL == 3600000
LIMITE_SIMPLES == 4800000
\* 0.28, in 1/10000
FATOR_R_MINIMO == 2800
\* Decimal("0.04")
ALIQUOTA_MINIMA == [neg |-> FALSE, dig |-> <<4>>, exp |-> -2]

\* the annex decided with `fator_r > 0.28`
AnexoPorFatorREstrito(anexo, fator_r) ==
    IF fator_r # None /\ anexo \in {"anexo_iii", "anexo_v"}
    THEN IF fator_r[1] > FATOR_R_MINIMO THEN "anexo_iii" ELSE "anexo_v"
    ELSE anexo

\* the annex after the Fator R override
AnexoPorFatorR(anexo, fator_r) ==
    IF fator_r # None /\ anexo \in {"anexo_iii", "anexo_v"}
    THEN IF fator_r[1] >= FATOR_R_MINIMO THEN "anexo_iii" ELSE "anexo_v"
    ELSE anexo

\* the scan with `receita_bruta_12m < faixa["limite"]`
RECURSIVE EncontrarFaixaEstrita(_, _, _)
EncontrarFaixaEstrita(faixas, rbt12, i) ==
    IF i > Len(faixas) THEN Len(faixas)
    ELSE IF rbt12 < faixas[i].limite THEN i
    ELSE EncontrarFaixaEstrita(faixas, rbt12, i + 1)

\* the index of the bracket found: the scan from bracket i on, and the
\* last bracket when the scan finds none
RECURSIVE EncontrarFaixa(_, _, _)
EncontrarFaixa(faixas, rbt12, i) ==
    IF i > Len(faixas) THEN Len(faixas)
    ELSE IF rbt12 <= faixas[i].limite THEN i
    ELSE EncontrarFaixa(faixas, rbt12, i + 1)

\* (rbt12 * aliquota_nominal) - parcela_deduzir, in 1/1000: both products
\* are exact in 28 digits
Numerador(rbt12, faixa) == rbt12 * faixa.aliquota - faixa.deducao * 1000

\* the rate without the minimum
AliquotaSemMinimo(rbt12, faixa) ==
    LET n == Numerador(rbt12, faixa)
    IN IF rbt12 > 0
       THEN [DecDiv(IF n < 0 THEN -n ELSE n, -3, rbt12)
                EXCEPT !.neg = n < 0]
       ELSE DecFromInt(0, 0)

\* aliquota_efetiva: the quotient, or 0 for a revenue that is not
\* positive, and then the minimum rate
AliquotaEfetiva(rbt12, faixa) ==
    LET n == Numerador(rbt12, faixa)
        q == IF rbt12 > 0
             THEN [DecDiv(IF n < 0 THEN -n ELSE n, -3, rbt12)
                      EXCEPT !.neg = n < 0]
             ELSE DecFromInt(0, 0)
    IN DecMax(q, ALIQUOTA_MINIMA)

\* valor_das, in centavos
ValorDas(receita_mensal, aliquota_efetiva) ==
    QuantizeCentavos(DecMul(DecFromInt(receita_mensal, -2), aliquota_efetiva))

\* d * 100
Vezes100(d) == Normalize([d EXCEPT !.exp = d.exp + 2])

Excedido == [status |-> "EXCEDIDO", aliquota_efetiva |-> 0, valor_das |-> 0]

\* the computed result for an annex of the table
Calculado(rbt12, receita_mensal, anexo, fator_r) ==
    LET faixas == TABELA_SIMPLES[anexo]
        indice == EncontrarFaixa(faixas, rbt12, 1)
        faixa  == faixas[indice]
        aliq   == AliquotaEfetiva(rbt12, faixa)
    IN [status |-> "SUCESSO",
        anexo |-> anexo,
        indice_faixa |-> indice,
        faixa |-> faixa,
        receita_bruta_12m |-> rbt12,
        receita_mensal |-> receita_mensal,
        aliquota_efetiva |-> Vezes100(aliq),
        valor_das |-> ValorDas(receita_mensal, aliq),
        excede_sublimite_estadual |-> rbt12 > SUBLIMITE_ESTADUAL,
        fator_r |-> fator_r]

\* the operation with the annex looked up before the limit is tested
CalcularSimplesNacionalTabelaAntes(rbt12, receita_mensal, anexo, fator_r) ==
    LET usado == AnexoPorFatorR(anexo, fator_r)
    IN IF usado \notin DOMAIN TABELA_SIMPLES
       THEN [status |-> "ValueError"]
       ELSE IF rbt12 > LIMITE_SIMPLES THEN Excedido
       ELSE Calculado(rbt12, receita_mensal, usado, fator_r)

\* FiscalEngine.calcular_simples_nacional; status "ValueError" is the
\* exception raised for an annex that is not in the table
CalcularSimplesNacional(rbt12, receita_mensal, anexo, fator_r) ==
    IF rbt12 > LIMITE_SIMPLES THEN Excedido
    ELSE LET usado == AnexoPorFatorR(anexo, fator_r)
         IN IF usado \notin DOMAIN TABELA_SIMPLES
            THEN [status |-> "ValueError"]
            ELSE Calculado(rbt12, receita_mensal, usado, fator_r)

(***************************************************************************)
(* Fator R: the payroll of twelve months over the revenue of twelve months.*)
(* Payroll and revenue are whole numbers of reais, fator_r a whole number  *)
(* of 1/10000 and fator_r_percentual (fator_r * 100) a whole number of     *)
(* 1/100 of a percent: the same integer as fator_r.                        *)
(***************************************************************************)
\* the magnitude of d in units of 10^-casas, before rounding
CasasDigits(d, casas) == Zeros(((-casas) - d.exp) - Len(d.dig) + 1) \o d.dig

\* d.quantize to `casas` decimal places, digits beyond them cut off
QuantizeTruncado(d, casas) ==
    LET k    == (-casas) - d.exp
        full == CasasDigits(d, casas)
        mag  == IF k <= 0 THEN ValueOf(d.dig \o Zeros(-k))
                ELSE ValueOf(SubSeq(full, 1, Len(full) - k))
    IN IF d.neg THEN -mag ELSE mag

\* d.quantize(Decimal("0.0001"), rounding=ROUND_HALF_UP) for casas = 4, in
\* units of 10^-casas
QuantizeHalfUp(d, casas) ==
    LET k    == (-casas) - d.exp
        full == CasasDigits(d, casas)
        mag  == IF k <= 0 THEN ValueOf(d.dig \o Zeros(-k))
                ELSE ValueOf(RoundHalfUp(full, Len(full) - k))
    IN IF d.neg THEN -mag ELSE mag

CASAS_FATOR_R == 4

\* Decimal("0.28") of the classification, in 1/10000
FATOR_R_ENQUADRAMENTO == 2800

\* the result for a revenue that is not positive: no fator_r_percentual,
\* no enquadramento
FatorRErro ==
    [status |-> "ERRO",
     mensagem |-> "Receita Bruta deve ser maior que zero",
     fator_r |-> 0]

\* folha / receita under the context, for receita > 0
RazaoFolhaReceita(folha, receita) ==
    [DecDiv(IF folha < 0 THEN -folha ELSE folha, 0, receita)
        EXCEPT !.neg = folha < 0 /\ folha # 0]

\* the result for a positive revenue
FatorRCalculado(folha_salarios_12m, receita_bruta_12m) ==
    LET fator_r == QuantizeHalfUp(
            RazaoFolhaReceita(folha_salarios_12m, receita_bruta_12m),
            CASAS_FATOR_R)
    IN [status |-> "SUCESSO",
        folha_salarios_12m |-> folha_salarios_12m,
        receita_bruta_12m |-> receita_bruta_12m,
        fator_r |-> fator_r,
        fator_r_percentual |-> fator_r,
        enquadramento |-> IF fator_r >= FATOR_R_ENQUADRAMENTO
                          THEN "ANEXO_III" ELSE "ANEXO_V",
        beneficia_anexo_iii |-> fator_r >= FATOR_R_ENQUADRAMENTO]

\* the operation with the guard testing receita_bruta_12m < 0: the
\* division by a zero revenue is attempted and raises
CalcularFatorRGuardaEstrita(folha_salarios_12m, receita_bruta_12m) ==
    IF receita_bruta_12m < 0 THEN FatorRErro
    ELSE IF receita_bruta_12m = 0 THEN [status |-> "DivisionByZero"]
    ELSE FatorRCalculado(folha_salarios_12m, receita_bruta_12m)

\* FiscalEngine.calcular_fator_r
CalcularFatorR(folha_salarios_12m, receita_bruta_12m) ==
    IF receita_bruta_12m <= 0 THEN FatorRErro
    ELSE FatorRCalculado(folha_salarios_12m, receita_bruta_12m)

\* a lookup of a key the dict does not have
KeyError(chave) == [status |-> "KeyError", chave |-> chave]

\* The float 0.28 is MANTISSA_028 / 2^54; 2^53 bounds a float's mantissa.
MANTISSA_028 == <<5, 0, 4, 4, 0, 3, 1, 5, 8, 2, 6, 5, 4, 9, 5, 6>>
DOIS_53 == <<9, 0, 0, 7, 1, 9, 9, 2, 5, 4, 7, 4, 0, 9, 9, 2>>

\* a < b for digit sequences without leading zeros
DigLess(a, b) ==
    IF Len(a) # Len(b) THEN Len(a) < Len(b)
    ELSE \E i \in 1..Len(a) : /\ a[i] < b[i]
                               /\ \A j \in 1..(i - 1) : a[j] = b[j]

\* dig * m for a digit sequence and an integer 0 <= m <= 2^23
Vezes(dig, m) == StripLeading(MulLoop(dig, m, Len(dig), 0, <<>>))

\* quotient and remainder of dig by d, 0 < d <= 2^23, from digit i on
RECURSIVE DivDig(_, _, _, _, _)
DivDig(dig, d, i, rem, acc) ==
    IF i > Len(dig) THEN [q |-> StripLeading(acc), r |-> rem]
    ELSE DivDig(dig, d, i + 1, (rem * 10 + dig[i]) % d,
                Append(acc, (rem * 10 + dig[i]) \div d))

\* the number of low bits the product p loses to fit a mantissa
RECURSIVE Deslocamento(_, _)
Deslocamento(p, s) ==
    IF DigLess(DivDig(p, 2 ^ s, 1, 0, <<>>).q, DOIS_53) THEN s
    ELSE Deslocamento(p, s + 1)

\* receita * 0.28 in float arithmetic, receita > 0 a whole number: the
\* exact product receita * MANTISSA_028 rounded half to even to a mantissa
\* q of at most 53 bits; the float is q * 2^s / 2^54
FloatVezes028(receita) ==
    LET p    == Vezes(MANTISSA_028, receita)
        s    == Deslocamento(p, 0)
        d    == DivDig(p, 2 ^ s, 1, 0, <<>>)
        meio == IF s = 0 THEN 0 ELSE 2 ^ (s - 1)
        up   == s > 0 /\ (d.r > meio
                          \/ (d.r = meio /\ d.q[Len(d.q)] % 2 = 1))
    IN [q |-> IF up THEN Incr(d.q) ELSE d.q, s |-> s]

\* the sign of float(receita * 0.28) - receita * 28/100: the sign of
\* 25 * q * 2^s - 7 * receita * 2^54
Excesso028(receita) ==
    LET f   == FloatVezes028(receita)
        esq == Vezes(Vezes(f.q, 2 ^ f.s), 25)
        dir == Vezes(Vezes(Vezes(Vezes(DigitsOf(receita), 7), 2 ^ 18),
                           2 ^ 18), 2 ^ 18)
    IN IF DigLess(dir, esq) THEN 1 ELSE IF DigLess(esq, dir) THEN -1 ELSE 0

\* folha_necessaria = receita_bruta_12m * 0.28: the amount in centavos, and
\* the sign of what the float adds to it (far less than a centavo)
FolhaNecessaria(receita_bruta_12m) ==
    [centavos |-> receita_bruta_12m * 28,
     excesso  |-> IF receita_bruta_12m > 0
                  THEN Excesso028(receita_bruta_12m)
                  ELSE IF receita_bruta_12m < 0
                  THEN -Excesso028(-receita_bruta_12m) ELSE 0]

\* the simulation's result once every lookup has succeeded; payrolls and
\* taxes in centavos.  max(0, folha_necessaria - folha_atual_12m) is
\* positive when the amounts differ so, or are equal and the float of
\* folha_necessaria exceeds its amount.
Simulacao(calculo_anexo_v, calculo_anexo_iii, fator_r_atual, receita_bruta_12m, folha_atual_12m) ==
    LET folha_necessaria == FolhaNecessaria(receita_bruta_12m)
        diferenca        == folha_necessaria.centavos - folha_atual_12m * 100
        aumento_positivo == diferenca > 0
                            \/ (diferenca = 0 /\ folha_necessaria.excesso > 0)
        economia_mensal  == calculo_anexo_v.valor_das
                                - calculo_anexo_iii.valor_das
        abaixo           == fator_r_atual.fator_r < FATOR_R_MINIMO
    IN [status |-> "SUCESSO",
        cenario_atual |->
            [fator_r |-> fator_r_atual.fator_r_percentual,
             anexo |-> IF abaixo THEN "V" ELSE "III",
             das_mensal |-> IF abaixo THEN calculo_anexo_v.valor_das
                            ELSE calculo_anexo_iii.valor_das,
             folha_12m |-> folha_atual_12m],
        cenario_otimizado |->
            [fator_r_minimo |-> FATOR_R_MINIMO,
             anexo |-> "III",
             das_mensal |-> calculo_anexo_iii.valor_das,
             folha_necessaria_12m |-> folha_necessaria,
             aumento_folha_necessario |->
                 [centavos |-> IF diferenca > 0 THEN diferenca ELSE 0,
                  positivo |-> aumento_positivo]],
        economia_potencial |->
            [mensal |-> economia_mensal, anual |-> economia_mensal * 12],
        recomendacao |-> IF aumento_positivo
                         THEN "Aumentar folha de salarios"
                         ELSE "Ja enquadrado no Anexo III"]

\* the simulation with the current scenario computed for annex IV
SimularEconomiaAnexoErrado(receita_bruta_12m, receita_mensal, folha_atual_12m) ==
    LET calculo_anexo_v   == CalcularSimplesNacional(receita_bruta_12m,
                                 receita_mensal, "anexo_iv", None)
        calculo_anexo_iii == CalcularSimplesNacional(receita_bruta_12m,
                                 receita_mensal, "anexo_iii", None)
        fator_r_atual     == CalcularFatorR(folha_atual_12m,
                                 receita_bruta_12m)
    IN IF "fator_r_percentual" \notin DOMAIN fator_r_atual
       THEN KeyError("fator_r_percentual")
       ELSE Simulacao(calculo_anexo_v, calculo_anexo_iii, fator_r_atual,
                      receita_bruta_12m, folha_atual_12m)
\* FiscalEngine.simular_economia_fator_r; status "KeyError" is the
\* exception raised by the lookup of a key that a result lacks (valor_das
\* is a key of both the computed and the exceeded result, fator_r of both
\* the computed and the error result)
SimularEconomiaFatorR(receita_bruta_12m, receita_mensal, folha_atual_12m) ==
    LET calculo_anexo_v   == CalcularSimplesNacional(receita_bruta_12m,
                                 receita_mensal, "anexo_v", None)
        calculo_anexo_iii == CalcularSimplesNacional(receita_bruta_12m,
                                 receita_mensal, "anexo_iii", None)
        fator_r_atual     == CalcularFatorR(folha_atual_12m,
                                 receita_bruta_12m)
    IN IF "fator_r_percentual" \notin DOMAIN fator_r_atual
       THEN KeyError("fator_r_percentual")
       ELSE Simulacao(calculo_anexo_v, calculo_anexo_iii, fator_r_atual,
                      receita_bruta_12m, folha_atual_12m)

(***************************************************************************)
(* engines/sped_engine.py.  A finding keeps its severity and rule code;    *)
(* the texts of a finding (description, evidence, suggestion) are not      *)
(* modelled.  A dict is a record of Optional fields: None is a missing key.*)
(***************************************************************************)
TipoAuditoria ==
    {"SPED_FISCAL", "SPED_CONTRIBUICOES", "CRUZAMENTO_NFE", "CRUZAMENTO_ECAC"}

Severidade == {"INFORMATIVO", "AVISO", "CRITICO"}

Regra(c, s) == [codigo |-> c, severidade |-> s]

REGRAS_SPED_FISCAL ==
    << Regra("SPED-F001", "CRITICO"), Regra("SPED-F002", "AVISO"),
       Regra("SPED-F003", "CRITICO"), Regra("SPED-F004", "AVISO"),
       Regra("SPED-F005", "CRITICO") >>

REGRAS_SPED_CONTRIBUICOES ==
    << Regra("SPED-C001", "AVISO"), Regra("SPED-C002", "CRITICO"),
       Regra("SPED-C003", "AVISO") >>

NaoConformidade(s, r) == [severidade |-> s, regra |-> r]

\* dict.get(key, default)
Get(d, key, default) == IF d[key] = None THEN default ELSE d[key][1]

NOTAS_MIN == 50

Contadores == 0..MaxContador

\* SPEDEngine._simular_parser_sped: the summaries the random draws can
\* give (the counters within 0..MaxContador, the entry notes within
\* MaxNotasSim of the least count)
SimularParserSped ==
    [cnpj : {Some("12.345.678/0001-00")},
     periodo : {Some("12/2025")},
     total_notas_entrada : {Some(n) : n \in NOTAS_MIN..(NOTAS_MIN + MaxNotasSim)},
     tem_bloco_h : {Some(b) : b \in BOOLEAN},
     ncms_invalidos : {Some(n) : n \in Contadores},
     cfops_inconsistentes : {Some(n) : n \in Contadores},
     divergencias_aliquota : {Some(n) : n \in Contadores},
     creditos_suspeitos : {Some(n) : n \in Contadores}]

\* SPEDEngine._validar_regra: the finding, or None
ValidarRegra(regra, dados) ==
    LET codigo == regra.codigo
        encontrou_problema ==
            IF codigo = "SPED-F001" /\ ~ Get(dados, "tem_bloco_h", TRUE)
            THEN TRUE
            ELSE IF codigo = "SPED-F002" /\ Get(dados, "ncms_invalidos", 0) > 0
            THEN TRUE
            ELSE IF codigo = "SPED-F003"
                    /\ Get(dados, "divergencias_aliquota", 0) > 0
            THEN TRUE
            ELSE IF codigo = "SPED-F004"
                    /\ Get(dados, "cfops_inconsistentes", 0) > 0
            THEN TRUE
            ELSE IF codigo = "SPED-C002"
                    /\ Get(dados, "creditos_suspeitos", 0) > 0
            THEN TRUE
            ELSE FALSE
    IN IF encontrou_problema
       THEN Some(NaoConformidade(regra.severidade, codigo))
       ELSE None

\* the loop leaving at the first finding
RECURSIVE ExecutarValidacoesAtePrimeira(_, _, _, _)
ExecutarValidacoesAtePrimeira(regras, dados, i, nao_conformidades) ==
    IF i > Len(regras) \/ nao_conformidades # <<>> THEN nao_conformidades
    ELSE ExecutarValidacoesAtePrimeira(regras, dados, i + 1,
             nao_conformidades \o ValidarRegra(regras[i], dados))

\* the loop of auditar_sped over the rules, from rule i on
RECURSIVE ExecutarValidacoes(_, _, _, _)
ExecutarValidacoes(regras, dados, i, nao_conformidades) ==
    IF i > Len(regras) THEN nao_conformidades
    ELSE ExecutarValidacoes(regras, dados, i + 1,
             nao_conformidades \o ValidarRegra(regras[i], dados))

RegrasDoTipo(tipo) ==
    IF tipo = "SPED_FISCAL" THEN REGRAS_SPED_FISCAL
    ELSE REGRAS_SPED_CONTRIBUICOES

\* SPEDEngine.auditar_sped, given the summary its parser returned
AuditarSped(tipo, dados_sped) ==
    ExecutarValidacoes(RegrasDoTipo(tipo), dados_sped, 1, <<>>)

TOLERANCIA_NFE == 5

Dist(a, b) == IF a >= b THEN a - b ELSE b - a

\* the cross-reference with `>= 5`
CruzarDadosFiscaisMaiorOuIgual(dados_sped, dados_externos) ==
    (IF Get(dados_externos, "pendencia_ecac", FALSE)
     THEN <<NaoConformidade("CRITICO", "CRUZ-001")>> ELSE <<>>)
    \o (IF Dist(Get(dados_externos, "total_nfe_recebidas", 0),
                Get(dados_sped, "total_notas_entrada", 0)) >= TOLERANCIA_NFE
        THEN <<NaoConformidade("AVISO", "CRUZ-002")>> ELSE <<>>)

\* SPEDEngine.cruzar_dados_fiscais
CruzarDadosFiscais(dados_sped, dados_externos) ==
    (IF Get(dados_externos, "pendencia_ecac", FALSE)
     THEN <<NaoConformidade("CRITICO", "CRUZ-001")>> ELSE <<>>)
    \o (IF Dist(Get(dados_externos, "total_nfe_recebidas", 0),
                Get(dados_sped, "total_notas_entrada", 0)) > TOLERANCIA_NFE
        THEN <<NaoConformidade("AVISO", "CRUZ-002")>> ELSE <<>>)

\* the recommendation with `>` at every threshold
GerarRecomendacaoEstrita(score, criticos) ==
    IF score > 90
    THEN "Excelente conformidade. Manter monitoramento regular."
    ELSE IF score > 70
    THEN "Boa conformidade. Corrigir avisos identificados."
    ELSE IF score > 50
    THEN "Conformidade moderada. Priorizar correcao de itens criticos."
    ELSE "Conformidade baixa. ACAO URGENTE: Regularizar itens criticos imediatamente."

\* SPEDEngine._gerar_recomendacao
GerarRecomendacao(score, criticos) ==
    IF score >= 90
    THEN "Excelente conformidade. Manter monitoramento regular."
    ELSE IF score >= 70
    THEN "Boa conformidade. Corrigir avisos identificados."
    ELSE IF score >= 50
    THEN "Conformidade moderada. Priorizar correcao de itens criticos."
    ELSE "Conformidade baixa. ACAO URGENTE: Regularizar itens criticos imediatamente."

\* sum(1 for nc in nao_conformidades if nc.severidade == s)
RECURSIVE Contar(_, _)
Contar(nao_conformidades, s) ==
    IF nao_conformidades = <<>> THEN 0
    ELSE (IF Head(nao_conformidades).severidade = s THEN 1 ELSE 0)
             + Contar(Tail(nao_conformidades), s)

Relatorio(nao_conformidades, dados_sped, criticos, avisos, informativos, score) ==
    [status |-> "OK",
     cnpj |-> dados_sped.cnpj,
     periodo |-> dados_sped.periodo,
     score_conformidade |-> score,
     total_nao_conformidades |-> Len(nao_conformidades),
     por_severidade |-> [critico |-> criticos, aviso |-> avisos,
                         informativo |-> informativos],
     nao_conformidades |-> nao_conformidades,
     recomendacao_geral |-> GerarRecomendacao(score, criticos)]

\* the report with the score not floored at 0
GerarRelatorioAuditoriaSemPiso(nao_conformidades, dados_sped) ==
    LET criticos     == Contar(nao_conformidades, "CRITICO")
        avisos       == Contar(nao_conformidades, "AVISO")
        informativos == Contar(nao_conformidades, "INFORMATIVO")
        penalidade   == (criticos * 10) + (avisos * 5) + (informativos * 1)
    IN Relatorio(nao_conformidades, dados_sped, criticos, avisos,
                 informativos, 100 - penalidade)

\* SPEDEngine.gerar_relatorio_auditoria
GerarRelatorioAuditoria(nao_conformidades, dados_sped) ==
    LET criticos     == Contar(nao_conformidades, "CRITICO")
        avisos       == Contar(nao_conformidades, "AVISO")
        informativos == Contar(nao_conformidades, "INFORMATIVO")
        total        == Len(nao_conformidades)
        penalidade   == (criticos * 10) + (avisos * 5) + (informativos * 1)
        score        == IF total = 0 THEN 100
                        ELSE IF 100 - penalidade > 0 THEN 100 - penalidade
                        ELSE 0
    IN Relatorio(nao_conformidades, dados_sped, criticos, avisos,
                 informativos, score)

(***************************************************************************)
(* services/auditoria_service.py                                           *)
(***************************************************************************)
\* the request's tipo strings, and those with "contribui" in tipo.lower()
TiposPedido == {"sped_fiscal", "sped_contribuicoes"}
ContemContribui(tipo) == tipo = "sped_contribuicoes"

TipoDoPedido(tipo) ==
    IF ContemContribui(tipo) THEN "SPED_CONTRIBUICOES" ELSE "SPED_FISCAL"

\* AuditoriaService._coletar_dados_externos: what the two reads of the
\* database can give (a pendency flag; a count of NF-e documents, drawn
\* around the tolerance)
NfeRecebidas ==
    {0, NOTAS_MIN - TOLERANCIA_NFE - 1, NOTAS_MIN - TOLERANCIA_NFE,
     NOTAS_MIN + TOLERANCIA_NFE, NOTAS_MIN + TOLERANCIA_NFE + 1}

ColetarDadosExternos ==
    [pendencia_ecac : {Some(b) : b \in BOOLEAN},
     total_nfe_recebidas : {Some(n) : n \in NfeRecebidas}]

\* the document inserted into db.auditorias
Auditoria(tipo_auditoria, relatorio) ==
    [tipo |-> tipo_auditoria,
     score_conformidade |-> relatorio.score_conformidade,
     total_nao_conformidades |-> relatorio.total_nao_conformidades,
     por_severidade |-> relatorio.por_severidade,
     nao_conformidades |-> relatorio.nao_conformidades,
     recomendacao |-> relatorio.recomendacao_geral]

(***************************************************************************)
(* engines/ocr_engine.py.  A str is a sequence of one-character strings.   *)
(***************************************************************************)
Digitos == <<"0", "1", "2", "3", "4", "5", "6", "7", "8", "9">>

EhDigito(c) == \E i \in 1..Len(Digitos) : Digitos[i] = c

\* int(d) of a digit character
IntDe(c) == (CHOOSE i \in 1..Len(Digitos) : Digitos[i] = c) - 1

\* str(n) of a number 0..9
StrDe(n) == Digitos[n + 1]

\* re.sub(r"[^0-9]", "", s)
SoDigitos(s) == SelectSeq(s, EhDigito)

\* sum(int(d) * p for d, p in zip(cnpj, peso)): zip stops at the shorter
RECURSIVE SomaPonderada(_, _, _)
SomaPonderada(cnpj, peso, i) ==
    IF i > Len(cnpj) \/ i > Len(peso) THEN 0
    ELSE IntDe(cnpj[i]) * peso[i] + SomaPonderada(cnpj, peso, i + 1)

\* the check digit without the rule for a remainder below 2
CalcDigitoSemRegraDoZero(cnpj, peso) == 11 - (SomaPonderada(cnpj, peso, 1) % 11)

\* calc_digito of _validar_cnpj
CalcDigito(cnpj, peso) ==
    LET resto == SomaPonderada(cnpj, peso, 1) % 11
    IN IF resto < 2 THEN 0 ELSE 11 - resto

Peso1 == <<5, 4, 3, 2, 9, 8, 7, 6, 5, 4, 3, 2>>
Peso2 == <<6, 5, 4, 3, 2, 9, 8, 7, 6, 5, 4, 3, 2>>

\* f"{d}" of a computed check digit: one character for 0..9, two for the
\* 10 and 11 that only a check digit without the rule for the remainder
\* below 2 can be
DigitoStr(d) == IF d < 10 THEN <<StrDe(d)>> ELSE <<"1", StrDe(d - 10)>>

\* the validation that tests the first check digit only
ValidarCnpjSoPrimeiroDigito(entrada) ==
    LET cnpj == SoDigitos(entrada)
    IN IF Len(cnpj) # 14 THEN FALSE
       ELSE IF \A i \in 1..14 : cnpj[i] = cnpj[1] THEN FALSE
       ELSE <<cnpj[13]>>
                = DigitoStr(CalcDigito(SubSeq(cnpj, 1, 12), Peso1))
\* OCREngine._validar_cnpj
ValidarCnpj(entrada) ==
    LET cnpj == SoDigitos(entrada)
    IN IF Len(cnpj) # 14 THEN FALSE
       ELSE IF \A i \in 1..14 : cnpj[i] = cnpj[1] THEN FALSE
       ELSE LET d1 == CalcDigito(SubSeq(cnpj, 1, 12), Peso1)
                d2 == CalcDigito(SubSeq(cnpj, 1, 12) \o DigitoStr(d1), Peso2)
            IN SubSeq(cnpj, 13, 14) = DigitoStr(d1) \o DigitoStr(d2)

\* ---- characters ---------------------------------------------------------
\* A text is a sequence of characters, each a string.  An accented letter is
\* written as the letter followed by the ASCII sign of its accent ("c," is
\* c-cedilla, "a~" a-tilde, "o^" o-circumflex, "i'" i-acute); "o_" is the
\* masculine ordinal indicator and "deg" the degree sign.
MAIUSCULAS ==
    << "A", "B", "C", "D", "E", "F", "G", "H", "I", "J", "K", "L", "M", "N",
       "O", "P", "Q", "R", "S", "T", "U", "V", "W", "X", "Y", "Z",
       "C,", "A~", "O~", "A'", "E'", "I'", "O'", "U'", "A^", "E^", "O^" >>

MINUSCULAS ==
    << "a", "b", "c", "d", "e", "f", "g", "h", "i", "j", "k", "l", "m", "n",
       "o", "p", "q", "r", "s", "t", "u", "v", "w", "x", "y", "z",
       "c,", "a~", "o~", "a'", "e'", "i'", "o'", "u'", "a^", "e^", "o^" >>

Imagem(s) == {s[i] : i \in 1..Len(s)}

\* the class [0-9]
Algarismos == Imagem(Digitos)

\* the case mappings of str.lower() and str.upper()
LOWER == [c \in Imagem(MAIUSCULAS) |->
             MINUSCULAS[CHOOSE i \in 1..Len(MAIUSCULAS) : MAIUSCULAS[i] = c]]

UPPER == [c \in Imagem(MINUSCULAS) |->
             MAIUSCULAS[CHOOSE i \in 1..Len(MINUSCULAS) : MINUSCULAS[i] = c]]

\* str.lower() of one character
LowerChar(c) == IF c \in DOMAIN LOWER THEN LOWER[c] ELSE c

\* str.upper() of one character
UpperChar(c) == IF c \in DOMAIN UPPER THEN UPPER[c] ELSE c

\* str.lower()
Lower(texto) == [i \in 1..Len(texto) |-> LowerChar(texto[i])]

\* the character classes of the re module: \s, [A-Z], \w
Espacos == {" ", "\t", "\n", "\r", "\f"}

MaiusculasAscii == {MAIUSCULAS[i] : i \in 1..26}

MinusculasAscii == {MINUSCULAS[i] : i \in 1..26}

Palavra ==
    Imagem(MAIUSCULAS) \cup Imagem(MINUSCULAS) \cup Algarismos \cup {"_", "o_"}

\* ---- regular expressions ------------------------------------------------
\* A pattern is the sequence of items re compiles it to.  Kinds of item:
\*   "c" one character of `set` (outside it when `neg`),
\*   "r" min..max repetitions of the pattern alts[1], greedy or lazy,
\*   "a" one of the alternative patterns alts[1], alts[2], ...,
\*   "b" the word boundary \b,   "(" and ")" the limits of group 1.
SemLimite == 0 - 1

Item(k, set, neg, min, max, guloso, alts) ==
    [k |-> k, set |-> set, neg |-> neg, min |-> min, max |-> max,
     guloso |-> guloso, alts |-> alts]

Ch(set) == Item("c", set, FALSE, 1, 1, TRUE, <<>>)

NaoCh(set) == Item("c", set, TRUE, 1, 1, TRUE, <<>>)

Lits(s) == [i \in 1..Len(s) |-> Ch({s[i]})]

Rep(min, max, p) == Item("r", {}, FALSE, min, max, TRUE, <<p>>)

RepLazy(min, max, p) == Item("r", {}, FALSE, min, max, FALSE, <<p>>)

Alt(alts) == Item("a", {}, FALSE, 1, 1, TRUE, alts)

Fronteira == Item("b", {}, FALSE, 1, 1, TRUE, <<>>)

Abre == Item("(", {}, FALSE, 1, 1, TRUE, <<>>)

Fecha == Item(")", {}, FALSE, 1, 1, TRUE, <<>>)

\* no match (re.search returns None)
Falha == [ok |-> FALSE, ini |-> 0, fim |-> 0, ini1 |-> 0, fim1 |-> 0]

\* one character against a class; under re.IGNORECASE both cases are tried
CasaChar(c, it, ic) ==
    LET dentro == \/ c \in it.set
                  \/ ic /\ (LowerChar(c) \in it.set \/ UpperChar(c) \in it.set)
    IN  dentro # it.neg

\* \b at position i: exactly one side of it is a word character
EhFronteira(texto, i) ==
    LET antes  == i > 1 /\ texto[i - 1] \in Palavra
        depois == i <= Len(texto) /\ texto[i] \in Palavra
    IN  antes # depois

Menos1(n) == IF n = SemLimite THEN SemLimite ELSE IF n = 0 THEN 0 ELSE n - 1

RECURSIVE FimDaCorrida(_, _, _, _, _)
\* the position after the longest run of characters of the class `it` that
\* starts at position i and has at most max characters
FimDaCorrida(it, texto, i, max, ic) ==
    IF i > Len(texto) \/ max = 0 \/ ~CasaChar(texto[i], it, ic) THEN i
    ELSE FimDaCorrida(it, texto, i + 1, Menos1(max), ic)

RECURSIVE Casar(_, _, _, _)
RECURSIVE CasarAlternativas(_, _, _, _, _, _)

\* The match of the item sequence at position i, with backtracking in the
\* order of the re module: alternatives left to right, a greedy repetition
\* longest first, a lazy one shortest first.
Casar(itens, texto, i, ic) ==
    IF itens = <<>>
    THEN [ok |-> TRUE, ini |-> 0, fim |-> i, ini1 |-> 0, fim1 |-> 0]
    ELSE
    LET it    == Head(itens)
        resto == Tail(itens)
        mais  == IF it.max = 0 THEN Falha
                 ELSE Casar(it.alts[1]
                              \o << [it EXCEPT !.min = Menos1(it.min),
                                               !.max = Menos1(it.max)] >>
                              \o resto, texto, i, ic)
    IN  CASE it.k = "c" ->
               IF i <= Len(texto) /\ CasaChar(texto[i], it, ic)
               THEN Casar(resto, texto, i + 1, ic) ELSE Falha
          [] it.k = "b" ->
               IF EhFronteira(texto, i)
               THEN Casar(resto, texto, i, ic) ELSE Falha
          [] it.k = "(" ->
               LET m == Casar(resto, texto, i, ic)
               IN  IF m.ok THEN [m EXCEPT !.ini1 = i] ELSE Falha
          [] it.k = ")" ->
               LET m == Casar(resto, texto, i, ic)
               IN  IF m.ok THEN [m EXCEPT !.fim1 = i] ELSE Falha
          [] it.k = "a" -> CasarAlternativas(it.alts, 1, resto, texto, i, ic)
          [] it.k = "r" /\ Len(it.alts[1]) = 1 /\ it.alts[1][1].k = "c" ->
               \* a repeated class: the lengths of the run that let the
               \* rest match, the longest (greedy) or shortest (lazy) one
               LET fim  == FimDaCorrida(it.alts[1][1], texto, i, it.max, ic)
                   fins == {j \in (i + it.min)..fim :
                               Casar(resto, texto, j, ic).ok}
                   j    == CHOOSE f \in fins : \A l \in fins :
                               IF it.guloso THEN l <= f ELSE f <= l
               IN  IF fins = {} THEN Falha ELSE Casar(resto, texto, j, ic)
          [] it.k = "r" ->
               IF it.min > 0 THEN mais
               ELSE IF it.guloso
               THEN IF mais.ok THEN mais ELSE Casar(resto, texto, i, ic)
               ELSE LET curto == Casar(resto, texto, i, ic)
                    IN  IF curto.ok THEN curto ELSE mais

CasarAlternativas(alts, n, resto, texto, i, ic) ==
    IF n > Len(alts) THEN Falha
    ELSE LET m == Casar(alts[n] \o resto, texto, i, ic)
         IN  IF m.ok THEN m
             ELSE CasarAlternativas(alts, n + 1, resto, texto, i, ic)

RECURSIVE Primeiro(_)
\* the character class a match of the pattern has to start with, if the
\* pattern starts with one
Primeiro(padrao) ==
    IF padrao = <<>> THEN None
    ELSE LET it == Head(padrao)
         IN  CASE it.k = "c" -> Some(it)
               [] it.k = "(" -> Primeiro(Tail(padrao))
               [] it.k = "r" /\ it.min > 0 -> Primeiro(it.alts[1])
               [] OTHER -> None

\* re.search(padrao, texto): the match at the leftmost position that has one
Search(padrao, texto, ic) ==
    LET primeiro == Primeiro(padrao)
        inicios  ==
            IF primeiro = None
            THEN {i \in 1..(Len(texto) + 1) : Casar(padrao, texto, i, ic).ok}
            ELSE {i \in 1..Len(texto) :
                     /\ CasaChar(texto[i], primeiro[1], ic)
                     /\ Casar(padrao, texto, i, ic).ok}
    IN  IF inicios = {} THEN Falha
        ELSE LET i == CHOOSE j \in inicios : \A l \in inicios : j <= l
             IN  [Casar(padrao, texto, i, ic) EXCEPT !.ini = i]

\* match.group(1)
Group1(m, texto) == SubSeq(texto, m.ini1, m.fim1 - 1)

\* class TipoDocumentoFiscal
NFE == "nfe"

NFSE == "nfse"

CTE == "cte"

DARF == "darf"

DAS == "das"

GPS == "gps"

DCTFWEB == "dctfweb"

CERTIDAO == "certidao"

BOLETO == "boleto"

EXTRATO == "extrato"

DESCONHECIDO == "desconhecido"

\* The patterns of each type, in the order of the dictionary.
PADROES_CLASSIFICACAO ==
    <<
      [tipo |-> NFE,
       padroes |-> <<
          \* nota\s*fiscal\s*eletr[oo^]nica
          Lits(<<"n", "o", "t", "a">>) \o
            <<Rep(0, SemLimite, <<Ch(Espacos)>>)>> \o
            Lits(<<"f", "i", "s", "c", "a", "l">>) \o
            <<Rep(0, SemLimite, <<Ch(Espacos)>>)>> \o
            Lits(<<"e", "l", "e", "t", "r">>) \o <<Ch({"o", "o^"})>> \o
            Lits(<<"n", "i", "c", "a">>),
          \* nf-?e
          Lits(<<"n", "f">>) \o <<Rep(0, 1, Lits(<<"-">>))>> \o Lits(<<"e">>),
          \* chave\s*de\s*acesso.*[0-9]{44}
          Lits(<<"c", "h", "a", "v", "e">>) \o
            <<Rep(0, SemLimite, <<Ch(Espacos)>>)>> \o Lits(<<"d", "e">>) \o
            <<Rep(0, SemLimite, <<Ch(Espacos)>>)>> \o
            Lits(<<"a", "c", "e", "s", "s", "o">>) \o
            <<Rep(0, SemLimite, <<NaoCh({"\n"})>>)>> \o
            <<Rep(44, 44, <<Ch(Algarismos)>>)>>,
          \* danfe
          Lits(<<"d", "a", "n", "f", "e">>) >>],
      [tipo |-> NFSE,
       padroes |-> <<
          \* nota\s*fiscal\s*de\s*servi[cc,]o
          Lits(<<"n", "o", "t", "a">>) \o
            <<Rep(0, SemLimite, <<Ch(Espacos)>>)>> \o
            Lits(<<"f", "i", "s", "c", "a", "l">>) \o
            <<Rep(0, SemLimite, <<Ch(Espacos)>>)>> \o Lits(<<"d", "e">>) \o
            <<Rep(0, SemLimite, <<Ch(Espacos)>>)>> \o
            Lits(<<"s", "e", "r", "v", "i">>) \o <<Ch({"c", "c,"})>> \o
            Lits(<<"o">>),
          \* nfs-?e
          Lits(<<"n", "f", "s">>) \o <<Rep(0, 1, Lits(<<"-">>))>> \o
            Lits(<<"e">>),
          \* iss\s*retido
          Lits(<<"i", "s", "s">>) \o
            <<Rep(0, SemLimite, <<Ch(Espacos)>>)>> \o
            Lits(<<"r", "e", "t", "i", "d", "o">>) >>],
      [tipo |-> CTE,
       padroes |-> <<
          \* conhecimento\s*de\s*transporte
          Lits(<<"c", "o", "n", "h", "e", "c", "i", "m", "e", "n", "t", "o">>) \o
            <<Rep(0, SemLimite, <<Ch(Espacos)>>)>> \o Lits(<<"d", "e">>) \o
            <<Rep(0, SemLimite, <<Ch(Espacos)>>)>> \o
            Lits(<<"t", "r", "a", "n", "s", "p", "o", "r", "t", "e">>),
          \* ct-?e
          Lits(<<"c", "t">>) \o <<Rep(0, 1, Lits(<<"-">>))>> \o Lits(<<"e">>),
          \* dacte
          Lits(<<"d", "a", "c", "t", "e">>) >>],
      [tipo |-> DARF,
       padroes |-> <<
          \* documento\s*de\s*arrecada[cc,][aa~]o.*receita
          Lits(<<"d", "o", "c", "u", "m", "e", "n", "t", "o">>) \o
            <<Rep(0, SemLimite, <<Ch(Espacos)>>)>> \o Lits(<<"d", "e">>) \o
            <<Rep(0, SemLimite, <<Ch(Espacos)>>)>> \o
            Lits(<<"a", "r", "r", "e", "c", "a", "d", "a">>) \o
            <<Ch({"c", "c,"})>> \o <<Ch({"a", "a~"})>> \o Lits(<<"o">>) \o
            <<Rep(0, SemLimite, <<NaoCh({"\n"})>>)>> \o
            Lits(<<"r", "e", "c", "e", "i", "t", "a">>),
          \* darf
          Lits(<<"d", "a", "r", "f">>),
          \* c[oo']digo\s*da\s*receita
          Lits(<<"c">>) \o <<Ch({"o", "o'"})>> \o
            Lits(<<"d", "i", "g", "o">>) \o
            <<Rep(0, SemLimite, <<Ch(Espacos)>>)>> \o Lits(<<"d", "a">>) \o
            <<Rep(0, SemLimite, <<Ch(Espacos)>>)>> \o
            Lits(<<"r", "e", "c", "e", "i", "t", "a">>) >>],
      [tipo |-> DAS,
       padroes |-> <<
          \* documento\s*de\s*arrecada[cc,][aa~]o.*simples
          Lits(<<"d", "o", "c", "u", "m", "e", "n", "t", "o">>) \o
            <<Rep(0, SemLimite, <<Ch(Espacos)>>)>> \o Lits(<<"d", "e">>) \o
            <<Rep(0, SemLimite, <<Ch(Espacos)>>)>> \o
            Lits(<<"a", "r", "r", "e", "c", "a", "d", "a">>) \o
            <<Ch({"c", "c,"})>> \o <<Ch({"a", "a~"})>> \o Lits(<<"o">>) \o
            <<Rep(0, SemLimite, <<NaoCh({"\n"})>>)>> \o
            Lits(<<"s", "i", "m", "p", "l", "e", "s">>),
          \* simples\s*nacional
          Lits(<<"s", "i", "m", "p", "l", "e", "s">>) \o
            <<Rep(0, SemLimite, <<Ch(Espacos)>>)>> \o
            Lits(<<"n", "a", "c", "i", "o", "n", "a", "l">>),
          \* \bdas\b
          <<Fronteira>> \o Lits(<<"d", "a", "s">>) \o <<Fronteira>> >>],
      [tipo |-> GPS,
       padroes |-> <<
          \* guia\s*da\s*previd[ee^]ncia\s*social
          Lits(<<"g", "u", "i", "a">>) \o
            <<Rep(0, SemLimite, <<Ch(Espacos)>>)>> \o Lits(<<"d", "a">>) \o
            <<Rep(0, SemLimite, <<Ch(Espacos)>>)>> \o
            Lits(<<"p", "r", "e", "v", "i", "d">>) \o <<Ch({"e", "e^"})>> \o
            Lits(<<"n", "c", "i", "a">>) \o
            <<Rep(0, SemLimite, <<Ch(Espacos)>>)>> \o
            Lits(<<"s", "o", "c", "i", "a", "l">>),
          \* \bgps\b
          <<Fronteira>> \o Lits(<<"g", "p", "s">>) \o <<Fronteira>>,
          \* inss
          Lits(<<"i", "n", "s", "s">>) >>],
      [tipo |-> DCTFWEB,
       padroes |-> <<
          \* dctfweb
          Lits(<<"d", "c", "t", "f", "w", "e", "b">>),
          \* dctf-?web
          Lits(<<"d", "c", "t", "f">>) \o <<Rep(0, 1, Lits(<<"-">>))>> \o
            Lits(<<"w", "e", "b">>),
          \* declara[cc,][aa~]o.*d[ee']bitos.*tribut[aa']rios
          Lits(<<"d", "e", "c", "l", "a", "r", "a">>) \o
            <<Ch({"c", "c,"})>> \o <<Ch({"a", "a~"})>> \o Lits(<<"o">>) \o
            <<Rep(0, SemLimite, <<NaoCh({"\n"})>>)>> \o Lits(<<"d">>) \o
            <<Ch({"e", "e'"})>> \o Lits(<<"b", "i", "t", "o", "s">>) \o
            <<Rep(0, SemLimite, <<NaoCh({"\n"})>>)>> \o
            Lits(<<"t", "r", "i", "b", "u", "t">>) \o <<Ch({"a", "a'"})>> \o
            Lits(<<"r", "i", "o", "s">>) >>],
      [tipo |-> CERTIDAO,
       padroes |-> <<
          \* certid[aa~]o\s*negativa
          Lits(<<"c", "e", "r", "t", "i", "d">>) \o <<Ch({"a", "a~"})>> \o
            Lits(<<"o">>) \o <<Rep(0, SemLimite, <<Ch(Espacos)>>)>> \o
            Lits(<<"n", "e", "g", "a", "t", "i", "v", "a">>),
          \* cnd
          Lits(<<"c", "n", "d">>),
          \* regularidade\s*fiscal
          Lits(<<"r", "e", "g", "u", "l", "a", "r", "i", "d", "a", "d", "e">>) \o
            <<Rep(0, SemLimite, <<Ch(Espacos)>>)>> \o
            Lits(<<"f", "i", "s", "c", "a", "l">>) >>] >>

\* The extraction patterns, in the order of the dictionary.
PADROES_EXTRACAO ==
    <<
      \* ([0-9]{2}[.][0-9]{3}[.][0-9]{3}[/][0-9]{4}[-][0-9]{2})
      [campo |-> "cnpj",
       padrao |->
          <<Abre>> \o <<Rep(2, 2, <<Ch(Algarismos)>>)>> \o Lits(<<".">>) \o
            <<Rep(3, 3, <<Ch(Algarismos)>>)>> \o Lits(<<".">>) \o
            <<Rep(3, 3, <<Ch(Algarismos)>>)>> \o Lits(<<"/">>) \o
            <<Rep(4, 4, <<Ch(Algarismos)>>)>> \o Lits(<<"-">>) \o
            <<Rep(2, 2, <<Ch(Algarismos)>>)>> \o <<Fecha>>],
      \* ([0-9]{3}[.][0-9]{3}[.][0-9]{3}[-][0-9]{2})
      [campo |-> "cpf",
       padrao |->
          <<Abre>> \o <<Rep(3, 3, <<Ch(Algarismos)>>)>> \o Lits(<<".">>) \o
            <<Rep(3, 3, <<Ch(Algarismos)>>)>> \o Lits(<<".">>) \o
            <<Rep(3, 3, <<Ch(Algarismos)>>)>> \o Lits(<<"-">>) \o
            <<Rep(2, 2, <<Ch(Algarismos)>>)>> \o <<Fecha>>],
      \* (?:R\$|BRL)\s*([0-9]{1,3}(?:[.,][0-9]{3})*(?:[.,][0-9]{2}))
      [campo |-> "valor",
       padrao |->
          <<Alt(<<Lits(<<"R", "$">>), Lits(<<"B", "R", "L">>)>>)>> \o
            <<Rep(0, SemLimite, <<Ch(Espacos)>>)>> \o <<Abre>> \o
            <<Rep(1, 3, <<Ch(Algarismos)>>)>> \o
            <<Rep(0, SemLimite, <<Ch({".", ","})>> \o
            <<Rep(3, 3, <<Ch(Algarismos)>>)>>)>> \o <<Ch({".", ","})>> \o
            <<Rep(2, 2, <<Ch(Algarismos)>>)>> \o <<Fecha>>],
      \* ([0-9]{2}[/][0-9]{2}[/][0-9]{4})
      [campo |-> "data",
       padrao |->
          <<Abre>> \o <<Rep(2, 2, <<Ch(Algarismos)>>)>> \o Lits(<<"/">>) \o
            <<Rep(2, 2, <<Ch(Algarismos)>>)>> \o Lits(<<"/">>) \o
            <<Rep(4, 4, <<Ch(Algarismos)>>)>> \o <<Fecha>>],
      \* ([0-9]{44})
      [campo |-> "chave_nfe",
       padrao |->
          <<Abre>> \o <<Rep(44, 44, <<Ch(Algarismos)>>)>> \o <<Fecha>>],
      \* ([0-9]{47,48})
      [campo |-> "codigo_barras",
       padrao |->
          <<Abre>> \o <<Rep(47, 48, <<Ch(Algarismos)>>)>> \o <<Fecha>>],
      \* NCM[:\s]*([0-9]{8})
      [campo |-> "ncm",
       padrao |->
          Lits(<<"N", "C", "M">>) \o
            <<Rep(0, SemLimite, <<Ch(Espacos \cup {":"})>>)>> \o <<Abre>> \o
            <<Rep(8, 8, <<Ch(Algarismos)>>)>> \o <<Fecha>>],
      \* CFOP[:\s]*([0-9]{4})
      [campo |-> "cfop",
       padrao |->
          Lits(<<"C", "F", "O", "P">>) \o
            <<Rep(0, SemLimite, <<Ch(Espacos \cup {":"})>>)>> \o <<Abre>> \o
            <<Rep(4, 4, <<Ch(Algarismos)>>)>> \o <<Fecha>>] >>

\* a str as a condition: the empty string is false
Truthy(s) == s # ""

\* a classification: the pair (tipo, score)
Classificacao(tipo, score) == [tipo |-> tipo, score |-> score]

\* a variant of the inner loop that stops at the first pattern found
PontuarPadroesAteOPrimeiro(padroes, n, texto_lower) ==
    IF \E k \in n..Len(padroes) : Search(padroes[k], texto_lower, FALSE).ok
    THEN 25
    ELSE 0
RECURSIVE PontuarPadroes(_, _, _)
\* the inner loop over the patterns of one type: 25 for each one found
PontuarPadroes(padroes, n, texto_lower) ==
    IF n > Len(padroes) THEN 0
    ELSE (IF Search(padroes[n], texto_lower, FALSE).ok THEN 25 ELSE 0)
         + PontuarPadroes(padroes, n + 1, texto_lower)

Min(a, b) == IF a <= b THEN a ELSE b

\* the score of one type: min(score, 100)
ScoreDoTipo(entrada, texto_lower) ==
    [tipo  |-> entrada.tipo,
     score |-> Min(PontuarPadroes(entrada.padroes, 1, texto_lower), 100)]

\* the outer loop over the items of the dictionary `padroes`
PontuarTipos(padroes, texto_lower) ==
    [n \in 1..Len(padroes) |-> ScoreDoTipo(padroes[n], texto_lower)]

\* the dictionary scores, in the order the types were inserted
Scores(texto_lower) == PontuarTipos(PADROES_CLASSIFICACAO, texto_lower)

\* a variant of max that returns the last key holding the maximum
MaxUltimo(scores) ==
    CHOOSE n \in DOMAIN scores :
        /\ \A m \in DOMAIN scores : scores[m].score <= scores[n].score
        /\ \A m \in DOMAIN scores : m > n => scores[m].score < scores[n].score

\* max(scores, key=scores.get): the first key holding the maximum
MaxPorScore(scores) ==
    CHOOSE n \in DOMAIN scores :
        /\ \A m \in DOMAIN scores : scores[m].score <= scores[n].score
        /\ \A m \in DOMAIN scores : m < n => scores[m].score < scores[n].score

\* the end of _classificar_documento: the best type, if it scored at all
MelhorTipo(scores) ==
    LET melhor_tipo == scores[MaxPorScore(scores)]
    IN  IF melhor_tipo.score > 0
        THEN Classificacao(melhor_tipo.tipo, melhor_tipo.score)
        ELSE Classificacao(DESCONHECIDO, 0)

\* the scoring of the text, when no type is expected
ClassificarPeloTexto(texto) == MelhorTipo(Scores(Lower(texto)))

\* a variant that scores the text even when a type is expected
ClassificarSemTipoEsperado(texto, tipo_esperado) == ClassificarPeloTexto(texto)

\* OCREngine._classificar_documento
ClassificarDocumento(texto, tipo_esperado) ==
    IF tipo_esperado # None /\ Truthy(tipo_esperado[1])
    THEN Classificacao(tipo_esperado[1], 100)
    ELSE ClassificarPeloTexto(texto)

\* ---- extraction ---------------------------------------------------------
\* dados is a dict: a key it does not hold is None here.
CAMPOS_DADOS ==
    {"cnpj", "cnpj_formatado", "cpf", "valor", "valor_float", "data",
     "chave_nfe", "codigo_barras", "ncm", "cfop", "tipo_documento",
     "numero_nf", "periodo_apuracao"}

DadosVazios == [c \in CAMPOS_DADOS |-> None]

\* match.group(1) of re.search, None without a match
Extrair(padrao, texto, ic) ==
    LET m == Search(padrao, texto, ic)
    IN  IF m.ok THEN Some(Group1(m, texto)) ELSE None

\* the loop over the items of the dictionary `padroes`
ExtrairCampos(padroes, texto) ==
    [c \in CAMPOS_DADOS |->
        IF \E n \in 1..Len(padroes) : padroes[n].campo = c
        THEN Extrair(padroes[CHOOSE n \in 1..Len(padroes) :
                                 padroes[n].campo = c].padrao, texto, TRUE)
        ELSE None]

CamposComuns(texto) == ExtrairCampos(PADROES_EXTRACAO, texto)

\* str.replace(de, para) for one-character strings; para "" removes
Replace(s, de, para) ==
    LET RECURSIVE R(_)
        R(n) == IF n > Len(s) THEN <<>>
                ELSE (IF s[n] = de
                      THEN (IF para = "" THEN <<>> ELSE <<para>>)
                      ELSE <<s[n]>>) \o R(n + 1)
    IN  R(1)

Ocorrencias(s, c) == Cardinality({i \in 1..Len(s) : s[i] = c})

\* float(valor_str) of a string of digits and dots (what the pattern of
\* valor leaves after the replacements): the digits and the number of them
\* after the dot; ValueError (None) with more than one dot
Float(valor_str) ==
    LET pontos == Ocorrencias(valor_str, ".")
        ponto  == CHOOSE i \in 1..Len(valor_str) : valor_str[i] = "."
    IN  IF pontos > 1 \/ SoDigitos(valor_str) = <<>> THEN None
        ELSE Some([digitos |-> SoDigitos(valor_str),
                   casas   |-> IF pontos = 0 THEN 0
                               ELSE Len(valor_str) - ponto])

\* a float as a condition, and float > 0: some digit is not 0
FloatPositivo(f) == \E i \in 1..Len(f.digitos) : f.digitos[i] # "0"

\* r"n[f]?-?e?\s*n[o_deg]?\s*([0-9]+)"
PADRAO_NUMERO_NF ==
    Lits(<<"n">>) \o <<Rep(0, 1, Lits(<<"f">>))>> \o
      <<Rep(0, 1, Lits(<<"-">>))>> \o <<Rep(0, 1, Lits(<<"e">>))>> \o
      <<Rep(0, SemLimite, <<Ch(Espacos)>>)>> \o Lits(<<"n">>) \o
      <<Rep(0, 1, <<Ch({"o_", "deg"})>>)>> \o
      <<Rep(0, SemLimite, <<Ch(Espacos)>>)>> \o <<Abre>> \o
      <<Rep(1, SemLimite, <<Ch(Algarismos)>>)>> \o <<Fecha>>

\* r"per[ii']odo.*?([0-9]{2}/[0-9]{4})"
PADRAO_PERIODO ==
    Lits(<<"p", "e", "r">>) \o <<Ch({"i", "i'"})>> \o
      Lits(<<"o", "d", "o">>) \o <<RepLazy(0, SemLimite, <<NaoCh({"\n"})>>)>> \o
      <<Abre>> \o <<Rep(2, 2, <<Ch(Algarismos)>>)>> \o Lits(<<"/">>) \o
      <<Rep(4, 4, <<Ch(Algarismos)>>)>> \o <<Fecha>>

\* the normalisation of cnpj: the digits, and the text as it was found
NormalizarCnpj(dados) ==
    IF dados.cnpj # None
    THEN [dados EXCEPT !.cnpj_formatado = dados.cnpj,
                       !.cnpj = Some(SoDigitos(dados.cnpj[1]))]
    ELSE dados

\* a variant that keeps the thousands dots of valor
NormalizarValorComPontos(dados) ==
    IF dados.valor # None
    THEN [dados EXCEPT !.valor_float =
             Float(Replace(dados.valor[1], ",", "."))]
    ELSE dados
\* the normalisation of valor: valor_float, unless float() raises
NormalizarValor(dados) ==
    IF dados.valor # None
    THEN [dados EXCEPT !.valor_float =
             Float(Replace(Replace(dados.valor[1], ".", ""), ",", "."))]
    ELSE dados

\* the fields of one type of document
CamposPorTipo(dados, texto_lower, tipo) ==
    CASE tipo = NFE ->
           [dados EXCEPT
               !.tipo_documento = Some("Nota Fiscal Eletronica"),
               !.numero_nf = Extrair(PADRAO_NUMERO_NF, texto_lower, FALSE)]
      [] tipo = DAS ->
           [dados EXCEPT
               !.tipo_documento = Some("DAS - Simples Nacional"),
               !.periodo_apuracao = Extrair(PADRAO_PERIODO, texto_lower, FALSE)]
      [] OTHER -> dados

\* OCREngine._extrair_dados
ExtrairDados(texto, tipo) ==
    CamposPorTipo(NormalizarValor(NormalizarCnpj(CamposComuns(texto))),
                  Lower(texto), tipo)

\* ---- validation ---------------------------------------------------------
\* int() of a string of digits
Inteiro(s) ==
    LET RECURSIVE V(_)
        V(n) == IF n = 0 THEN 0 ELSE 10 * V(n - 1) + IntDe(s[n])
    IN  V(Len(s))

Bissexto(ano) == ano % 4 = 0 /\ (ano % 100 # 0 \/ ano % 400 = 0)

DiasNoMes(mes, ano) ==
    IF mes = 2 THEN (IF Bissexto(ano) THEN 29 ELSE 28)
    ELSE IF mes \in {4, 6, 9, 11} THEN 30 ELSE 31

\* OCREngine._validar_data: datetime.strptime(data_str, "%d/%m/%Y") succeeds
\* (for the strings the pattern of data extracts: dd/mm/yyyy in digits)
ValidarData(data_str) ==
    /\ Len(data_str) = 10
    /\ data_str[3] = "/" /\ data_str[6] = "/"
    /\ \A i \in {1, 2, 4, 5, 7, 8, 9, 10} : EhDigito(data_str[i])
    /\ LET dia == Inteiro(SubSeq(data_str, 1, 2))
           mes == Inteiro(SubSeq(data_str, 4, 5))
           ano == Inteiro(SubSeq(data_str, 7, 10))
       IN  /\ ano >= 1
           /\ mes \in 1..12
           /\ dia \in 1..DiasNoMes(mes, ano)

\* OCREngine._validar_dados
ValidarDados(dados) ==
    [cnpj_valido    |-> dados.cnpj # None /\ ValidarCnpj(dados.cnpj[1]),
     valor_positivo |-> /\ dados.valor_float # None
                        /\ FloatPositivo(dados.valor_float[1]),
     data_valida    |-> dados.data # None /\ ValidarData(dados.data[1])]

\* ---- confidence ---------------------------------------------------------
CAMPOS_IMPORTANTES == <<"cnpj", "valor", "data">>

\* round(x, 2) of x = num / den >= 0, in hundredths (half to even)
Round2(num, den) ==
    LET q == (num * 100) \div den
        r == (num * 100) % den
    IN  IF 2 * r > den \/ (2 * r = den /\ q % 2 = 1) THEN q + 1 ELSE q

\* a variant that leaves the validations out of the score
ScoreSemValidacoes(score_classificacao, campos_encontrados, validacoes_ok, total) ==
    Round2(score_classificacao * 4 * Len(CAMPOS_IMPORTANTES)
             + campos_encontrados * 30 * 10,
           10 * Len(CAMPOS_IMPORTANTES))

\* score_classificacao * 0.4 + (campos / 3) * 30 + (ok / total) * 30, capped
\* at 100 and rounded to two places: the result in hundredths.  The sum is
\* taken over the common denominator 10 * 3 * total.
ScorePonderado(score_classificacao, campos_encontrados, validacoes_ok, total) ==
    LET den == 10 * Len(CAMPOS_IMPORTANTES) * total
        num == score_classificacao * 4 * Len(CAMPOS_IMPORTANTES)
                   * total
               + campos_encontrados * 30 * 10 * total
               + validacoes_ok * 30 * 10 * Len(CAMPOS_IMPORTANTES)
    IN  Round2(Min(num, 100 * den), den)

\* OCREngine._calcular_score_confianca
CalcularScoreConfianca(score_classificacao, dados, validacoes) ==
    ScorePonderado(
        score_classificacao,
        Cardinality({n \in 1..Len(CAMPOS_IMPORTANTES) :
                   dados[CAMPOS_IMPORTANTES[n]] # None}),
        Cardinality({v \in DOMAIN validacoes : validacoes[v]}),
        Cardinality(DOMAIN validacoes))

\* the result of processar_documento
ResultadoOcr(classificacao, dados, validacoes) ==
    [status          |-> "OK",
     tipo            |-> classificacao.tipo,
     score_confianca |-> CalcularScoreConfianca(classificacao.score,
                                                dados, validacoes),
     dados_extraidos |-> dados,
     validacoes      |-> validacoes]

\* steps 4 and 5 of processar_documento: validation and confidence
ValidarEPontuar(classificacao, dados) ==
    ResultadoOcr(classificacao, dados, ValidarDados(dados))

\* steps 3 to 5 of processar_documento
ExtrairEValidar(texto, classificacao) ==
    ValidarEPontuar(classificacao, ExtrairDados(texto, classificacao.tipo))

\* OCREngine.processar_documento, for a file whose text (_extrair_texto) is
\* `texto`
ProcessarDocumentoOcr(texto, tipo_esperado) ==
    ExtrairEValidar(texto, ClassificarDocumento(texto, tipo_esperado))

(***************************************************************************)
(* services/ocr_service.py.  The file the service stores is described by   *)
(* the text the engine extracts from it.                                   *)
(***************************************************************************)
\* the confidence from which a document is accepted without review, in
\* hundredths
CONFIANCA_ACEITE == 5000

\* a variant that accepts only a confidence above 50
StatusOcrAcimaDe(score_confianca) ==
    IF score_confianca > CONFIANCA_ACEITE THEN "processado"
    ELSE "revisao_necessaria"
\* "processado" if resultado_ocr["score_confianca"] >= 50
\* else "revisao_necessaria"
StatusOcr(score_confianca) ==
    IF score_confianca >= CONFIANCA_ACEITE THEN "processado"
    ELSE "revisao_necessaria"

\* the record inserted into db.ocr_documentos
DocumentoOcr(doc_id, empresa_id, resultado_ocr) ==
    [id              |-> doc_id,
     empresa_id      |-> empresa_id,
     tipo_detectado  |-> resultado_ocr.tipo,
     score_confianca |-> resultado_ocr.score_confianca,
     dados_extraidos |-> resultado_ocr.dados_extraidos,
     validacoes      |-> resultado_ocr.validacoes,
     status          |-> StatusOcr(resultado_ocr.score_confianca)]

\* what OCRService.processar_documento returns
RespostaOcr(documento) ==
    [status |-> "OK",
     resultado |->
         [id              |-> documento.id,
          tipo            |-> documento.tipo_detectado,
          score_confianca |-> documento.score_confianca,
          dados_extraidos |-> documento.dados_extraidos,
          validacoes      |-> documento.validacoes,
          status          |-> documento.status]]

(***************************************************************************)
(* utils/parsers/dctfweb_parser.py and das_parser.py.  The bytes of a PDF  *)
(* are described by what pdfplumber makes of them: whether it opens and    *)
(* reads them (legivel) and the text of the pages.  Of the parsed data,    *)
(* the fields the processing of a document reads are modelled.             *)
(***************************************************************************)
PDFParsingError(mensagem) ==
    [status |-> "PDFParsingError", mensagem |-> mensagem]

\* DCTFWebParser.PATTERNS, the fields that are counted
DCTFWEB_PATTERNS ==
    [
      cnpj |-> <<
          \* CNPJ[:\s]+([0-9]{2}[.][0-9]{3}[.][0-9]{3}[/][0-9]{4}[-][0-9]{2})
          Lits(<<"C", "N", "P", "J">>) \o
            <<Rep(1, SemLimite, <<Ch(Espacos \cup {":"})>>)>> \o <<Abre>> \o
            <<Rep(2, 2, <<Ch(Algarismos)>>)>> \o Lits(<<".">>) \o
            <<Rep(3, 3, <<Ch(Algarismos)>>)>> \o Lits(<<".">>) \o
            <<Rep(3, 3, <<Ch(Algarismos)>>)>> \o Lits(<<"/">>) \o
            <<Rep(4, 4, <<Ch(Algarismos)>>)>> \o Lits(<<"-">>) \o
            <<Rep(2, 2, <<Ch(Algarismos)>>)>> \o <<Fecha>>,
          \* ([0-9]{2}[.][0-9]{3}[.][0-9]{3}[/][0-9]{4}[-][0-9]{2})
          <<Abre>> \o <<Rep(2, 2, <<Ch(Algarismos)>>)>> \o Lits(<<".">>) \o
            <<Rep(3, 3, <<Ch(Algarismos)>>)>> \o Lits(<<".">>) \o
            <<Rep(3, 3, <<Ch(Algarismos)>>)>> \o Lits(<<"/">>) \o
            <<Rep(4, 4, <<Ch(Algarismos)>>)>> \o Lits(<<"-">>) \o
            <<Rep(2, 2, <<Ch(Algarismos)>>)>> \o <<Fecha>>,
          \* ([0-9]{14})
          <<Abre>> \o <<Rep(14, 14, <<Ch(Algarismos)>>)>> \o <<Fecha>> >>,
      periodo |-> <<
          \* Per[i'i']odo\s*(?:de\s*)?Apura[c,c][a~a]o[:\s]*([0-9]{2}[/][0-9]{4})
          Lits(<<"P", "e", "r", "i'", "o", "d", "o">>) \o
            <<Rep(0, SemLimite, <<Ch(Espacos)>>)>> \o
            <<Rep(0, 1, Lits(<<"d", "e">>) \o
            <<Rep(0, SemLimite, <<Ch(Espacos)>>)>>)>> \o
            Lits(<<"A", "p", "u", "r", "a">>) \o <<Ch({"c,", "c"})>> \o
            <<Ch({"a~", "a"})>> \o Lits(<<"o">>) \o
            <<Rep(0, SemLimite, <<Ch(Espacos \cup {":"})>>)>> \o <<Abre>> \o
            <<Rep(2, 2, <<Ch(Algarismos)>>)>> \o Lits(<<"/">>) \o
            <<Rep(4, 4, <<Ch(Algarismos)>>)>> \o <<Fecha>>,
          \* Compet[e^e]ncia[:\s]*([0-9]{2}[/][0-9]{4})
          Lits(<<"C", "o", "m", "p", "e", "t">>) \o <<Ch({"e^", "e"})>> \o
            Lits(<<"n", "c", "i", "a">>) \o
            <<Rep(0, SemLimite, <<Ch(Espacos \cup {":"})>>)>> \o <<Abre>> \o
            <<Rep(2, 2, <<Ch(Algarismos)>>)>> \o Lits(<<"/">>) \o
            <<Rep(4, 4, <<Ch(Algarismos)>>)>> \o <<Fecha>>,
          \* ([0-9]{2}[/][0-9]{4})
          <<Abre>> \o <<Rep(2, 2, <<Ch(Algarismos)>>)>> \o Lits(<<"/">>) \o
            <<Rep(4, 4, <<Ch(Algarismos)>>)>> \o <<Fecha>> >>,
      valor_total |-> <<
          \* Valor\s*Total[:\s]*R?\$?\s*([0-9.,]+)
          Lits(<<"V", "a", "l", "o", "r">>) \o
            <<Rep(0, SemLimite, <<Ch(Espacos)>>)>> \o
            Lits(<<"T", "o", "t", "a", "l">>) \o
            <<Rep(0, SemLimite, <<Ch(Espacos \cup {":"})>>)>> \o
            <<Rep(0, 1, Lits(<<"R">>))>> \o <<Rep(0, 1, Lits(<<"$">>))>> \o
            <<Rep(0, SemLimite, <<Ch(Espacos)>>)>> \o <<Abre>> \o
            <<Rep(1, SemLimite, <<Ch(Algarismos \cup {".", ","})>>)>> \o
            <<Fecha>>,
          \* Total\s*(?:a\s*)?(?:Recolher|Pagar)[:\s]*R?\$?\s*([0-9.,]+)
          Lits(<<"T", "o", "t", "a", "l">>) \o
            <<Rep(0, SemLimite, <<Ch(Espacos)>>)>> \o
            <<Rep(0, 1, Lits(<<"a">>) \o
            <<Rep(0, SemLimite, <<Ch(Espacos)>>)>>)>> \o
            <<Alt(<<Lits(<<"R", "e", "c", "o", "l", "h", "e", "r">>), Lits(<<"P", "a", "g", "a", "r">>)>>)>> \o
            <<Rep(0, SemLimite, <<Ch(Espacos \cup {":"})>>)>> \o
            <<Rep(0, 1, Lits(<<"R">>))>> \o <<Rep(0, 1, Lits(<<"$">>))>> \o
            <<Rep(0, SemLimite, <<Ch(Espacos)>>)>> \o <<Abre>> \o
            <<Rep(1, SemLimite, <<Ch(Algarismos \cup {".", ","})>>)>> \o
            <<Fecha>>,
          \* TOTAL[:\s]*R?\$?\s*([0-9.,]+)
          Lits(<<"T", "O", "T", "A", "L">>) \o
            <<Rep(0, SemLimite, <<Ch(Espacos \cup {":"})>>)>> \o
            <<Rep(0, 1, Lits(<<"R">>))>> \o <<Rep(0, 1, Lits(<<"$">>))>> \o
            <<Rep(0, SemLimite, <<Ch(Espacos)>>)>> \o <<Abre>> \o
            <<Rep(1, SemLimite, <<Ch(Algarismos \cup {".", ","})>>)>> \o
            <<Fecha>> >>,
      vencimento |-> <<
          \* Vencimento[:\s]*([0-9]{2}[/][0-9]{2}[/][0-9]{4})
          Lits(<<"V", "e", "n", "c", "i", "m", "e", "n", "t", "o">>) \o
            <<Rep(0, SemLimite, <<Ch(Espacos \cup {":"})>>)>> \o <<Abre>> \o
            <<Rep(2, 2, <<Ch(Algarismos)>>)>> \o Lits(<<"/">>) \o
            <<Rep(2, 2, <<Ch(Algarismos)>>)>> \o Lits(<<"/">>) \o
            <<Rep(4, 4, <<Ch(Algarismos)>>)>> \o <<Fecha>>,
          \* Data\s*(?:de\s*)?Vencimento[:\s]*([0-9]{2}[/][0-9]{2}[/][0-9]{4})
          Lits(<<"D", "a", "t", "a">>) \o
            <<Rep(0, SemLimite, <<Ch(Espacos)>>)>> \o
            <<Rep(0, 1, Lits(<<"d", "e">>) \o
            <<Rep(0, SemLimite, <<Ch(Espacos)>>)>>)>> \o
            Lits(<<"V", "e", "n", "c", "i", "m", "e", "n", "t", "o">>) \o
            <<Rep(0, SemLimite, <<Ch(Espacos \cup {":"})>>)>> \o <<Abre>> \o
            <<Rep(2, 2, <<Ch(Algarismos)>>)>> \o Lits(<<"/">>) \o
            <<Rep(2, 2, <<Ch(Algarismos)>>)>> \o Lits(<<"/">>) \o
            <<Rep(4, 4, <<Ch(Algarismos)>>)>> \o <<Fecha>>,
          \* Vence\s*em[:\s]*([0-9]{2}[/][0-9]{2}[/][0-9]{4})
          Lits(<<"V", "e", "n", "c", "e">>) \o
            <<Rep(0, SemLimite, <<Ch(Espacos)>>)>> \o Lits(<<"e", "m">>) \o
            <<Rep(0, SemLimite, <<Ch(Espacos \cup {":"})>>)>> \o <<Abre>> \o
            <<Rep(2, 2, <<Ch(Algarismos)>>)>> \o Lits(<<"/">>) \o
            <<Rep(2, 2, <<Ch(Algarismos)>>)>> \o Lits(<<"/">>) \o
            <<Rep(4, 4, <<Ch(Algarismos)>>)>> \o <<Fecha>> >>,
      recibo |-> <<
          \* N[u'u]mero\s*(?:do\s*)?Recibo[:\s]*([A-Z0-9.-]+)
          Lits(<<"N">>) \o <<Ch({"u'", "u"})>> \o
            Lits(<<"m", "e", "r", "o">>) \o
            <<Rep(0, SemLimite, <<Ch(Espacos)>>)>> \o
            <<Rep(0, 1, Lits(<<"d", "o">>) \o
            <<Rep(0, SemLimite, <<Ch(Espacos)>>)>>)>> \o
            Lits(<<"R", "e", "c", "i", "b", "o">>) \o
            <<Rep(0, SemLimite, <<Ch(Espacos \cup {":"})>>)>> \o <<Abre>> \o
            <<Rep(1, SemLimite, <<Ch(MaiusculasAscii \cup Algarismos \cup {".", "-"})>>)>> \o
            <<Fecha>>,
          \* Recibo[:\s]*([A-Z0-9.-]+)
          Lits(<<"R", "e", "c", "i", "b", "o">>) \o
            <<Rep(0, SemLimite, <<Ch(Espacos \cup {":"})>>)>> \o <<Abre>> \o
            <<Rep(1, SemLimite, <<Ch(MaiusculasAscii \cup Algarismos \cup {".", "-"})>>)>> \o
            <<Fecha>>,
          \* Protocolo[:\s]*([A-Z0-9.-]+)
          Lits(<<"P", "r", "o", "t", "o", "c", "o", "l", "o">>) \o
            <<Rep(0, SemLimite, <<Ch(Espacos \cup {":"})>>)>> \o <<Abre>> \o
            <<Rep(1, SemLimite, <<Ch(MaiusculasAscii \cup Algarismos \cup {".", "-"})>>)>> \o
            <<Fecha>> >>,
      razao_social |-> <<
          \* Raz[a~a]o\s*Social[:\s]*([^\n]+)
          Lits(<<"R", "a", "z">>) \o <<Ch({"a~", "a"})>> \o Lits(<<"o">>) \o
            <<Rep(0, SemLimite, <<Ch(Espacos)>>)>> \o
            Lits(<<"S", "o", "c", "i", "a", "l">>) \o
            <<Rep(0, SemLimite, <<Ch(Espacos \cup {":"})>>)>> \o <<Abre>> \o
            <<Rep(1, SemLimite, <<NaoCh({"\n"})>>)>> \o <<Fecha>>,
          \* Nome\s*Empresarial[:\s]*([^\n]+)
          Lits(<<"N", "o", "m", "e">>) \o
            <<Rep(0, SemLimite, <<Ch(Espacos)>>)>> \o
            Lits(<<"E", "m", "p", "r", "e", "s", "a", "r", "i", "a", "l">>) \o
            <<Rep(0, SemLimite, <<Ch(Espacos \cup {":"})>>)>> \o <<Abre>> \o
            <<Rep(1, SemLimite, <<NaoCh({"\n"})>>)>> \o <<Fecha>>,
          \* Contribuinte[:\s]*([^\n]+)
          Lits(<<"C", "o", "n", "t", "r", "i", "b", "u", "i", "n", "t", "e">>) \o
            <<Rep(0, SemLimite, <<Ch(Espacos \cup {":"})>>)>> \o <<Abre>> \o
            <<Rep(1, SemLimite, <<NaoCh({"\n"})>>)>> \o <<Fecha>> >> ]

\* DASParser.PATTERNS, the fields that are counted
DAS_PATTERNS ==
    [
      cnpj |-> <<
          \* CNPJ[:\s]+([0-9]{2}[.][0-9]{3}[.][0-9]{3}[/][0-9]{4}[-][0-9]{2})
          Lits(<<"C", "N", "P", "J">>) \o
            <<Rep(1, SemLimite, <<Ch(Espacos \cup {":"})>>)>> \o <<Abre>> \o
            <<Rep(2, 2, <<Ch(Algarismos)>>)>> \o Lits(<<".">>) \o
            <<Rep(3, 3, <<Ch(Algarismos)>>)>> \o Lits(<<".">>) \o
            <<Rep(3, 3, <<Ch(Algarismos)>>)>> \o Lits(<<"/">>) \o
            <<Rep(4, 4, <<Ch(Algarismos)>>)>> \o Lits(<<"-">>) \o
            <<Rep(2, 2, <<Ch(Algarismos)>>)>> \o <<Fecha>>,
          \* ([0-9]{2}[.][0-9]{3}[.][0-9]{3}[/][0-9]{4}[-][0-9]{2})
          <<Abre>> \o <<Rep(2, 2, <<Ch(Algarismos)>>)>> \o Lits(<<".">>) \o
            <<Rep(3, 3, <<Ch(Algarismos)>>)>> \o Lits(<<".">>) \o
            <<Rep(3, 3, <<Ch(Algarismos)>>)>> \o Lits(<<"/">>) \o
            <<Rep(4, 4, <<Ch(Algarismos)>>)>> \o Lits(<<"-">>) \o
            <<Rep(2, 2, <<Ch(Algarismos)>>)>> \o <<Fecha>> >>,
      periodo |-> <<
          \* Per[i'i']odo\s*(?:de\s*)?Apura[c,c][a~a]o[:\s]*([0-9]{2}[/][0-9]{4})
          Lits(<<"P", "e", "r", "i'", "o", "d", "o">>) \o
            <<Rep(0, SemLimite, <<Ch(Espacos)>>)>> \o
            <<Rep(0, 1, Lits(<<"d", "e">>) \o
            <<Rep(0, SemLimite, <<Ch(Espacos)>>)>>)>> \o
            Lits(<<"A", "p", "u", "r", "a">>) \o <<Ch({"c,", "c"})>> \o
            <<Ch({"a~", "a"})>> \o Lits(<<"o">>) \o
            <<Rep(0, SemLimite, <<Ch(Espacos \cup {":"})>>)>> \o <<Abre>> \o
            <<Rep(2, 2, <<Ch(Algarismos)>>)>> \o Lits(<<"/">>) \o
            <<Rep(4, 4, <<Ch(Algarismos)>>)>> \o <<Fecha>>,
          \* Compet[e^e]ncia[:\s]*([0-9]{2}[/][0-9]{4})
          Lits(<<"C", "o", "m", "p", "e", "t">>) \o <<Ch({"e^", "e"})>> \o
            Lits(<<"n", "c", "i", "a">>) \o
            <<Rep(0, SemLimite, <<Ch(Espacos \cup {":"})>>)>> \o <<Abre>> \o
            <<Rep(2, 2, <<Ch(Algarismos)>>)>> \o Lits(<<"/">>) \o
            <<Rep(4, 4, <<Ch(Algarismos)>>)>> \o <<Fecha>>,
          \* PA[:\s]*([0-9]{2}[/][0-9]{4})
          Lits(<<"P", "A">>) \o
            <<Rep(0, SemLimite, <<Ch(Espacos \cup {":"})>>)>> \o <<Abre>> \o
            <<Rep(2, 2, <<Ch(Algarismos)>>)>> \o Lits(<<"/">>) \o
            <<Rep(4, 4, <<Ch(Algarismos)>>)>> \o <<Fecha>> >>,
      valor_total |-> <<
          \* Valor\s*(?:Total|do\s*Documento)[:\s]*R?\$?\s*([0-9.,]+)
          Lits(<<"V", "a", "l", "o", "r">>) \o
            <<Rep(0, SemLimite, <<Ch(Espacos)>>)>> \o
            <<Alt(<<Lits(<<"T", "o", "t", "a", "l">>), Lits(<<"d", "o">>) \o
            <<Rep(0, SemLimite, <<Ch(Espacos)>>)>> \o
            Lits(<<"D", "o", "c", "u", "m", "e", "n", "t", "o">>)>>)>> \o
            <<Rep(0, SemLimite, <<Ch(Espacos \cup {":"})>>)>> \o
            <<Rep(0, 1, Lits(<<"R">>))>> \o <<Rep(0, 1, Lits(<<"$">>))>> \o
            <<Rep(0, SemLimite, <<Ch(Espacos)>>)>> \o <<Abre>> \o
            <<Rep(1, SemLimite, <<Ch(Algarismos \cup {".", ","})>>)>> \o
            <<Fecha>>,
          \* TOTAL[:\s]*R?\$?\s*([0-9.,]+)
          Lits(<<"T", "O", "T", "A", "L">>) \o
            <<Rep(0, SemLimite, <<Ch(Espacos \cup {":"})>>)>> \o
            <<Rep(0, 1, Lits(<<"R">>))>> \o <<Rep(0, 1, Lits(<<"$">>))>> \o
            <<Rep(0, SemLimite, <<Ch(Espacos)>>)>> \o <<Abre>> \o
            <<Rep(1, SemLimite, <<Ch(Algarismos \cup {".", ","})>>)>> \o
            <<Fecha>> >>,
      vencimento |-> <<
          \* Vencimento[:\s]*([0-9]{2}[/][0-9]{2}[/][0-9]{4})
          Lits(<<"V", "e", "n", "c", "i", "m", "e", "n", "t", "o">>) \o
            <<Rep(0, SemLimite, <<Ch(Espacos \cup {":"})>>)>> \o <<Abre>> \o
            <<Rep(2, 2, <<Ch(Algarismos)>>)>> \o Lits(<<"/">>) \o
            <<Rep(2, 2, <<Ch(Algarismos)>>)>> \o Lits(<<"/">>) \o
            <<Rep(4, 4, <<Ch(Algarismos)>>)>> \o <<Fecha>>,
          \* Data\s*(?:de\s*)?Vencimento[:\s]*([0-9]{2}[/][0-9]{2}[/][0-9]{4})
          Lits(<<"D", "a", "t", "a">>) \o
            <<Rep(0, SemLimite, <<Ch(Espacos)>>)>> \o
            <<Rep(0, 1, Lits(<<"d", "e">>) \o
            <<Rep(0, SemLimite, <<Ch(Espacos)>>)>>)>> \o
            Lits(<<"V", "e", "n", "c", "i", "m", "e", "n", "t", "o">>) \o
            <<Rep(0, SemLimite, <<Ch(Espacos \cup {":"})>>)>> \o <<Abre>> \o
            <<Rep(2, 2, <<Ch(Algarismos)>>)>> \o Lits(<<"/">>) \o
            <<Rep(2, 2, <<Ch(Algarismos)>>)>> \o Lits(<<"/">>) \o
            <<Rep(4, 4, <<Ch(Algarismos)>>)>> \o <<Fecha>> >>,
      linha_digitavel |-> <<
          \* ([0-9]{5}[.][0-9]{5}\s*[0-9]{5}[.][0-9]{6}\s*[0-9]{5}[.][0-9]{6}\s*[0-9]\s*[0-9]{14})
          <<Abre>> \o <<Rep(5, 5, <<Ch(Algarismos)>>)>> \o Lits(<<".">>) \o
            <<Rep(5, 5, <<Ch(Algarismos)>>)>> \o
            <<Rep(0, SemLimite, <<Ch(Espacos)>>)>> \o
            <<Rep(5, 5, <<Ch(Algarismos)>>)>> \o Lits(<<".">>) \o
            <<Rep(6, 6, <<Ch(Algarismos)>>)>> \o
            <<Rep(0, SemLimite, <<Ch(Espacos)>>)>> \o
            <<Rep(5, 5, <<Ch(Algarismos)>>)>> \o Lits(<<".">>) \o
            <<Rep(6, 6, <<Ch(Algarismos)>>)>> \o
            <<Rep(0, SemLimite, <<Ch(Espacos)>>)>> \o <<Ch(Algarismos)>> \o
            <<Rep(0, SemLimite, <<Ch(Espacos)>>)>> \o
            <<Rep(14, 14, <<Ch(Algarismos)>>)>> \o <<Fecha>>,
          \* ([0-9]{47,48})
          <<Abre>> \o <<Rep(47, 48, <<Ch(Algarismos)>>)>> \o <<Fecha>> >> ]

\* str.strip()
Strip(s) ==
    LET cheios == {i \in 1..Len(s) : s[i] \notin Espacos}
    IN  IF cheios = {} THEN <<>>
        ELSE SubSeq(s, CHOOSE i \in cheios : \A j \in cheios : i <= j,
                       CHOOSE i \in cheios : \A j \in cheios : j <= i)

\* _normalize_cnpj: XX.XXX.XXX/XXXX-XX, or the text as found when it does
\* not have 14 digits
NormalizeCnpj(cnpj) ==
    LET digits == SoDigitos(cnpj)
    IN  IF Len(digits) # 14 THEN cnpj
        ELSE SubSeq(digits, 1, 2) \o <<".">> \o SubSeq(digits, 3, 5)
               \o <<".">> \o SubSeq(digits, 6, 8) \o <<"/">>
               \o SubSeq(digits, 9, 12) \o <<"-">> \o SubSeq(digits, 13, 14)

\* mes, ano = periodo.split("/"); int(mes); int(ano) -- whether it succeeds
PeriodoSepara(periodo) ==
    /\ Ocorrencias(periodo, "/") = 1
    /\ LET barra == CHOOSE i \in 1..Len(periodo) : periodo[i] = "/"
       IN  /\ barra > 1 /\ barra < Len(periodo)
           /\ \A i \in (1..Len(periodo)) \ {barra} : EhDigito(periodo[i])

Mes(periodo) ==
    Inteiro(SubSeq(periodo, 1,
                   (CHOOSE i \in 1..Len(periodo) : periodo[i] = "/") - 1))

Ano(periodo) ==
    Inteiro(SubSeq(periodo,
                   (CHOOSE i \in 1..Len(periodo) : periodo[i] = "/") + 1,
                   Len(periodo)))

\* the float 0.0
FloatZero == [digitos |-> <<"0">>, casas |-> 1]

\* _parse_valor, for the strings of digits, dots and commas that the
\* patterns of valor_total extract
ParseValor(valor_str) ==
    LET valor == Strip(valor_str)
        com_ponto ==
            IF Ocorrencias(valor, ",") > 0 /\ Ocorrencias(valor, ".") > 0
            THEN Replace(Replace(valor, ".", ""), ",", ".")
            ELSE IF Ocorrencias(valor, ",") > 0
                 THEN Replace(valor, ",", ".")
                 ELSE valor
    IN  IF Float(com_ponto) = None THEN FloatZero ELSE Float(com_ponto)[1]

\* date.isoformat() of the date strptime reads from dd/mm/yyyy
IsoFormat(data_str) ==
    SubSeq(data_str, 7, 10) \o <<"-">> \o SubSeq(data_str, 4, 5)
        \o <<"-">> \o SubSeq(data_str, 1, 2)

\* re.sub(r"\s+", "", linha) keeps the characters that are not white space
NaoEspaco(c) == c \notin Espacos

\* _extract_field: group 1 of the first pattern that matches, ignoring case
ExtractField(text, patterns) ==
    LET casam == {n \in 1..Len(patterns) : Search(patterns[n], text, TRUE).ok}
    IN  IF casam = {} THEN None
        ELSE Extrair(patterns[CHOOSE n \in casam : \A m \in casam : n <= m],
                     text, TRUE)

\* what _extract_field finds for each field of a table of patterns
Achados(text, PATTERNS) ==
    [campo \in DOMAIN PATTERNS |-> ExtractField(text, PATTERNS[campo])]

\* `if campo:` -- found, and not the empty string
Achou(campo) == campo # None /\ campo[1] # <<>>

MAX_RAZAO_SOCIAL == 200

\* a variant that counts the fields that were not extracted
ConfiancaDasFalhas(extraction_success, total_fields) ==
    [num |-> (total_fields - extraction_success) * 100, den |-> total_fields]
\* extraction_confidence = (extraction_success / total_fields) * 100, kept as
\* the fraction num / den
Confianca(extraction_success, total_fields) ==
    [num |-> extraction_success * 100, den |-> total_fields]

\* confidence >= minimo
ConfiancaAoMenos(confianca, minimo) == confianca.num >= minimo * confianca.den

Quantas(condicoes) == Cardinality({i \in DOMAIN condicoes : condicoes[i]})

TOTAL_FIELDS_DCTFWEB == 6

TOTAL_FIELDS_DAS == 5

\* the fields of the data both parsers fill the same way
CamposDoPdf(achados) ==
    [cnpj |-> IF Achou(achados.cnpj) THEN NormalizeCnpj(achados.cnpj[1])
              ELSE <<>>,
     periodo_apuracao |-> IF Achou(achados.periodo) THEN achados.periodo[1]
                          ELSE <<>>,
     mes |-> IF Achou(achados.periodo) /\ PeriodoSepara(achados.periodo[1])
             THEN Some(Mes(achados.periodo[1])) ELSE None,
     ano |-> IF Achou(achados.periodo) /\ PeriodoSepara(achados.periodo[1])
             THEN Some(Ano(achados.periodo[1])) ELSE None,
     valor_total |-> IF Achou(achados.valor_total)
                     THEN ParseValor(achados.valor_total[1]) ELSE FloatZero,
     data_vencimento |->
         IF Achou(achados.vencimento) /\ ValidarData(achados.vencimento[1])
         THEN Some(IsoFormat(achados.vencimento[1])) ELSE None]

\* the four fields both parsers count
SucessosComuns(achados) ==
    << Achou(achados.cnpj),
       Achou(achados.periodo) /\ PeriodoSepara(achados.periodo[1]),
       Achou(achados.valor_total),
       Achou(achados.vencimento) /\ ValidarData(achados.vencimento[1]) >>

\* DCTFWebParser._parse_text after the extraction of the fields, followed by
\* DCTFWebData.to_dict
DctfwebData(achados) ==
    [k \in {"numero_recibo", "razao_social", "extraction_confidence"}
           \cup DOMAIN CamposDoPdf(achados) |->
        CASE k = "numero_recibo" ->
               IF Achou(achados.recibo) THEN Some(Strip(achados.recibo[1]))
               ELSE None
          [] k = "razao_social" ->
               IF Achou(achados.razao_social)
               THEN Some(SubSeq(Strip(achados.razao_social[1]), 1,
                                Min(Len(Strip(achados.razao_social[1])),
                                    MAX_RAZAO_SOCIAL)))
               ELSE None
          [] k = "extraction_confidence" ->
               Confianca(Quantas(SucessosComuns(achados)
                                   \o << Achou(achados.recibo),
                                         Achou(achados.razao_social) >>),
                         TOTAL_FIELDS_DCTFWEB)
          [] OTHER -> CamposDoPdf(achados)[k]]

\* DASParser._parse_text after the extraction of the fields, followed by
\* DASData.to_dict
DasData(achados) ==
    [k \in {"linha_digitavel", "razao_social", "extraction_confidence"}
           \cup DOMAIN CamposDoPdf(achados) |->
        CASE k = "linha_digitavel" ->
               IF Achou(achados.linha_digitavel)
               THEN Some(SelectSeq(achados.linha_digitavel[1], NaoEspaco))
               ELSE None
          [] k = "razao_social" -> None
          [] k = "extraction_confidence" ->
               Confianca(Quantas(SucessosComuns(achados)
                                   \o << Achou(achados.linha_digitavel) >>),
                         TOTAL_FIELDS_DAS)
          [] OTHER -> CamposDoPdf(achados)[k]]

DctfwebParseText(text) == DctfwebData(Achados(text, DCTFWEB_PATTERNS))

DasParseText(text) == DasData(Achados(text, DAS_PATTERNS))

\* DCTFWebParser.parse_bytes: anything pdfplumber raises becomes a
\* PDFParsingError
DctfwebParseBytes(pdf_bytes) ==
    IF pdf_bytes.legivel
    THEN [status |-> "OK", data |-> DctfwebParseText(pdf_bytes.texto)]
    ELSE PDFParsingError("Falha ao processar PDF")

\* DASParser.parse_bytes
DasParseBytes(pdf_bytes) ==
    IF pdf_bytes.legivel
    THEN [status |-> "OK", data |-> DasParseText(pdf_bytes.texto)]
    ELSE PDFParsingError("Falha ao processar PDF DAS")

(***************************************************************************)
(* services/documento_service.py                                           *)
(***************************************************************************)
\* class TipoDocumento (dctfweb and das have the values of DCTFWEB and DAS)
OUTRO == "outro"

\* class StatusDocumento
PENDENTE == "pendente"

PROCESSANDO == "processando"

PROCESSADO == "processado"

ERRO == "erro"

ARQUIVADO == "arquivado"

\* dict.get(chave, default) of a dict given as a function of its keys
GetChave(d, chave, default) == IF chave \in DOMAIN d THEN d[chave] ELSE default

\* the empty dict
DictVazio == [k \in {} |-> None]

CONFIANCA_MINIMA == 50

\* the last attempt of _parse_pdf: whatever the DCTFWeb parser extracts
ParsePdfOutro(dctfweb_data) ==
    IF dctfweb_data.status = "OK"
    THEN [status |-> "OK", tipo |-> OUTRO, dados |-> dctfweb_data.data]
    ELSE [status |-> "OK", tipo |-> OUTRO, dados |-> DictVazio]

\* the second attempt of _parse_pdf, after the DCTFWeb parser
ParsePdfDas(dctfweb_data, das_data) ==
    IF /\ das_data.status = "OK"
       /\ ConfiancaAoMenos(das_data.data.extraction_confidence,
                           CONFIANCA_MINIMA)
    THEN [status |-> "OK", tipo |-> DAS, dados |-> das_data.data]
    ELSE ParsePdfOutro(dctfweb_data)

\* a variant that tries the DAS parser first
ParsePdfDasPrimeiro(dctfweb_data, das_data) ==
    IF /\ das_data.status = "OK"
       /\ ConfiancaAoMenos(das_data.data.extraction_confidence,
                           CONFIANCA_MINIMA)
    THEN [status |-> "OK", tipo |-> DAS, dados |-> das_data.data]
    ELSE IF /\ dctfweb_data.status = "OK"
            /\ ConfiancaAoMenos(dctfweb_data.data.extraction_confidence,
                                CONFIANCA_MINIMA)
    THEN [status |-> "OK", tipo |-> DCTFWEB, dados |-> dctfweb_data.data]
    ELSE ParsePdfOutro(dctfweb_data)
\* the first attempt of _parse_pdf
ParsePdfDctfweb(dctfweb_data, das_data) ==
    IF /\ dctfweb_data.status = "OK"
       /\ ConfiancaAoMenos(dctfweb_data.data.extraction_confidence,
                           CONFIANCA_MINIMA)
    THEN [status |-> "OK", tipo |-> DCTFWEB, dados |-> dctfweb_data.data]
    ELSE ParsePdfDas(dctfweb_data, das_data)

\* DocumentoService._parse_pdf: each attempt is inside try/except, an
\* exception of a parser moves on to the next attempt
ParsePdf(content) ==
    ParsePdfDctfweb(DctfwebParseBytes(content), DasParseBytes(content))

\* the obligation of db.obrigacoes with this cnpj, type and period, if any
\* (its position, 0 when there is none)
FindObrigacao(cnpj, tipo, periodo) ==
    LET iguais == {i \in 1..Len(obrigacoes) :
                      /\ obrigacoes[i].cnpj = cnpj
                      /\ obrigacoes[i].tipo = tipo
                      /\ obrigacoes[i].competencia = periodo}
    IN  IF iguais = {} THEN 0
        ELSE CHOOSE i \in iguais : \A j \in iguais : i <= j

\* a new identifier (uuid4): one that no obligation has
NovoId == Len(obrigacoes) + 1

\* _criar_ou_atualizar_obrigacao, the obligation updated: $set of
\* obrigacao_data on the existing one
ObrigacaoAtualizada(obrigacao, documento, tipo, dados) ==
    [obrigacao EXCEPT
        !.ano = GetChave(dados, "ano", None),
        !.mes = GetChave(dados, "mes", None),
        !.valor = GetChave(dados, "valor_total", FloatZero),
        !.data_vencimento =
            IF GetChave(dados, "data_vencimento", None) # None
            THEN dados.data_vencimento ELSE obrigacao.data_vencimento,
        !.documento_ids =
            IF documento.id \in Imagem(obrigacao.documento_ids)
            THEN obrigacao.documento_ids
            ELSE Append(obrigacao.documento_ids, documento.id)]

\* _criar_ou_atualizar_obrigacao, the obligation created
ObrigacaoNova(id, documento, tipo, dados) ==
    [id              |-> id,
     tipo            |-> tipo,
     cnpj            |-> GetChave(dados, "cnpj", <<>>),
     competencia     |-> GetChave(dados, "periodo_apuracao", <<>>),
     ano             |-> GetChave(dados, "ano", None),
     mes             |-> GetChave(dados, "mes", None),
     valor           |-> GetChave(dados, "valor_total", FloatZero),
     data_vencimento |-> GetChave(dados, "data_vencimento", None),
     empresa_id      |-> documento.empresa_id,
     status          |-> "pendente",
     prioridade      |-> "normal",
     documento_ids   |-> <<documento.id>>]

\* whether _criar_ou_atualizar_obrigacao goes beyond its first return
TemChaveDeObrigacao(tipo, dados) ==
    /\ tipo \in {DCTFWEB, DAS}
    /\ GetChave(dados, "cnpj", <<>>) # <<>>
    /\ GetChave(dados, "periodo_apuracao", <<>>) # <<>>

\* the identifier _criar_ou_atualizar_obrigacao returns (None without cnpj
\* or period, and for the types that have no obligation)
ObrigacaoId(tipo, dados) ==
    IF ~TemChaveDeObrigacao(tipo, dados) THEN None
    ELSE LET i == FindObrigacao(dados.cnpj, tipo, dados.periodo_apuracao)
         IN  IF i = 0 THEN Some(NovoId) ELSE Some(obrigacoes[i].id)

\* db.obrigacoes after _criar_ou_atualizar_obrigacao
ObrigacoesDepois(documento, tipo, dados) ==
    IF ~TemChaveDeObrigacao(tipo, dados) THEN obrigacoes
    ELSE LET i == FindObrigacao(dados.cnpj, tipo, dados.periodo_apuracao)
         IN  IF i = 0
             THEN Append(obrigacoes, ObrigacaoNova(NovoId, documento, tipo, dados))
             ELSE [obrigacoes EXCEPT
                      ![i] = ObrigacaoAtualizada(obrigacoes[i], documento,
                                                 tipo, dados)]

\* DocumentoProcessamentoResult
Resultado(documento_id, sucesso, tipo_detectado, dados, obrigacao_id, erros) ==
    [status           |-> "OK",
     documento_id     |-> documento_id,
     sucesso          |-> sucesso,
     tipo_detectado   |-> tipo_detectado,
     dados_extraidos  |-> dados,
     obrigacao_criada |-> obrigacao_id # None,
     obrigacao_id     |-> obrigacao_id,
     erros            |-> erros]

\* the document after the update of a successful processing
DocumentoProcessado(doc, tipo_detectado, dados, obrigacao_id) ==
    [doc EXCEPT
        !.status = PROCESSADO,
        !.tipo = tipo_detectado,
        !.dados_extraidos = Some(dados),
        !.confianca_extracao =
            GetChave(dados, "extraction_confidence", Confianca(0, 1)),
        !.cnpj = Some(GetChave(dados, "cnpj", <<>>)),
        !.obrigacao_id =
            IF obrigacao_id # None THEN obrigacao_id ELSE doc.obrigacao_id]

\* a variant of the except clause that stores the message only
DocumentoComErroSemStatus(doc, mensagem) ==
    [doc EXCEPT !.erro_processamento = Some(mensagem)]
\* the document after the update of an except clause
DocumentoComErro(doc, mensagem) ==
    [doc EXCEPT !.status = ERRO, !.erro_processamento = Some(mensagem)]
(***************************************************************************)
(* The invocations.                                                        *)
(***************************************************************************)
Anexos == DOMAIN TABELA_SIMPLES \cup {"anexo_vi"}

Limites == {ANEXO_I[i].limite : i \in 1..Len(ANEXO_I)}

\* revenue_12m: around every ceiling, below and above the whole table, and
\* the documented scenarios
Receitas12m ==
    {-1, 0, 1, 500000, 5000000}
        \cup {l + d : l \in Limites, d \in (-Delta)..Delta}

\* monthly revenue, in centavos
ReceitasMensais == {-5000000, -75, 0, 75, 1050, 5000000}

\* fator_r, in 1/10000
FatoresR == {None} \cup {Some(f) : f \in {0, 2799, 2800, 3000}}

ChamadasSimples ==
    [op : {"calcular_simples_nacional"}, receita_bruta_12m : Receitas12m,
     receita_mensal : ReceitasMensais, anexo : Anexos, fator_r : FatoresR]

\* summaries supplied directly: any key may be missing
OpcionalDe(S) == {None} \cup {Some(x) : x \in S}

DadosParaRegras ==
    [cnpj : {None}, periodo : {None}, total_notas_entrada : {None},
     tem_bloco_h : OpcionalDe(BOOLEAN),
     ncms_invalidos : OpcionalDe(Contadores),
     cfops_inconsistentes : OpcionalDe(Contadores),
     divergencias_aliquota : OpcionalDe(Contadores),
     creditos_suspeitos : OpcionalDe(Contadores)]

DadosParaCruzamento ==
    [cnpj : {None}, periodo : {None},
     total_notas_entrada : OpcionalDe(0..MaxContagem),
     tem_bloco_h : {None}, ncms_invalidos : {None},
     cfops_inconsistentes : {None}, divergencias_aliquota : {None},
     creditos_suspeitos : {None}]

DadosExternosDiretos ==
    [pendencia_ecac : OpcionalDe(BOOLEAN),
     total_nfe_recebidas : OpcionalDe(0..MaxContagem)]

DadosDoRelatorio ==
    [cnpj |-> Some("12.345.678/0001-00"), periodo |-> Some("12/2025"),
     total_notas_entrada |-> None, tem_bloco_h |-> None,
     ncms_invalidos |-> None, cfops_inconsistentes |-> None,
     divergencias_aliquota |-> None, creditos_suspeitos |-> None]

TodasAsRegras ==
    {REGRAS_SPED_FISCAL[i] : i \in 1..Len(REGRAS_SPED_FISCAL)}
        \cup {REGRAS_SPED_CONTRIBUICOES[i] :
                 i \in 1..Len(REGRAS_SPED_CONTRIBUICOES)}

\* lists of findings: every order of up to MaxLista findings, and up to
\* MaxPorSeveridade findings of each severity
Repetir(s, n) == [i \in 1..n |-> NaoConformidade(s, "DIRETA")]

ListasDeAchados ==
    UNION {[1..n -> {NaoConformidade(s, "DIRETA") : s \in Severidade}] :
              n \in 0..MaxLista}
      \cup {Repetir("CRITICO", c) \o Repetir("AVISO", a)
                \o Repetir("INFORMATIVO", i) :
               c \in 0..MaxPorSeveridade, a \in 0..MaxPorSeveridade,
               i \in 0..MaxPorSeveridade}

ChamadasValidarRegra ==
    [op : {"_validar_regra"}, regra : TodasAsRegras, dados : DadosParaRegras]

\* The ledger file at arquivo_path, as its lines: a file with its opening
\* and closing records, and an empty file.
ARQUIVO_SPED == << "|0000|", "|C100|", "|H005|", "|9999|" >>

ARQUIVO_VAZIO == << >>

Arquivos == {ARQUIVO_SPED, ARQUIVO_VAZIO}

ChamadasAuditarSped ==
    [op : {"auditar_sped"}, tipo : TipoAuditoria, arquivo_path : Arquivos]

ChamadasCruzar ==
    [op : {"cruzar_dados_fiscais"}, dados_sped : DadosParaCruzamento,
     dados_externos : DadosExternosDiretos]

ChamadasGerarRelatorio ==
    [op : {"gerar_relatorio_auditoria"}, nao_conformidades : ListasDeAchados,
     dados_sped : {DadosDoRelatorio}]

ChamadasExecutarAuditoria ==
    [op : {"executar_auditoria_sped"}, tipo : TiposPedido,
     arquivo_path : Arquivos]

\* payrolls of either sign; 139975 and 140025 over a revenue of 500000 lie
\* half way between two values of four decimals
Folhas == {-139975, -1, 0, 1, 139975, 140025}

\* payrolls within Delta of 28% of the revenue
FolhasAoRedor(receita) ==
    {(receita * 28) \div 100 + d : d \in (-Delta)..Delta}

ChamadasFatorR ==
    UNION {[op : {"calcular_fator_r"},
            folha_salarios_12m : Folhas \cup FolhasAoRedor(r),
            receita_bruta_12m : {r}] : r \in Receitas12m}

ChamadasSimulacao ==
    UNION {[op : {"simular_economia_fator_r"}, receita_bruta_12m : {r},
            receita_mensal : {-75, 0, 1050, 5000000},
            folha_atual_12m : Folhas \cup FolhasAoRedor(r)] :
                r \in Receitas12m}

\* CNPJs with correct check digits: the documented 11.222.333/0001-81, and
\* one whose check digits are both 0
CNPJ_EXEMPLO == <<"1", "1", "2", "2", "2", "3", "3", "3", "0", "0", "0", "1", "8", "1">>
CNPJ_FINAL_00 == <<"0", "0", "0", "0", "0", "0", "9", "2", "0", "0", "0", "1", "0", "0">>

\* c with its digit i replaced by d
Trocar(c, i, d) == [c EXCEPT ![i] = d]

\* c and every c with one digit replaced
ComUmDigitoTrocado(c) ==
    {Trocar(c, i, Digitos[k]) : i \in 1..Len(c), k \in 1..Len(Digitos)}

\* arguments of _validar_cnpj: the CNPJs above, every replacement of one of
\* their digits, formatted and unformatted inputs, inputs of other lengths
EntradasCnpj ==
    ComUmDigitoTrocado(CNPJ_EXEMPLO) \cup ComUmDigitoTrocado(CNPJ_FINAL_00)
        \cup {<<"1", "1", ".", "2", "2", "2", ".", "3", "3", "3", "/", "0", "0", "0", "1", "-", "8", "1">>,
              <<"1", "2", ".", "3", "4", "5", ".", "6", "7", "8", "/", "0", "0", "0", "1", "-", "0", "0">>,
              <<"1", "2", ".", "3", "4", "5", ".", "6", "7", "8", "/", "0", "0", "0", "1", "-", "9", "5">>,
              <<"0", "0", "0", "0", "0", "0", "0", "0", "0", "0", "0", "0", "0", "0">>,
              <<"1", "1", "1", "1", "1", "1", "1", "1", "1", "1", "1", "1", "1", "1">>,
              <<"1", "1", "2", "2", "2", "3", "3", "3", "0", "0", "0", "1", "8">>,
              <<"1", "1", "2", "2", "2", "3", "3", "3", "0", "0", "0", "1", "8", "1", "1">>,
              <<"C", "N", "P", "J", " ", "1", "1", "2", "2", "2", "3", "3", "3", "0", "0", "0", "1", "8", "1">>,
              <<"c", "n", "p", "j">>,
              <<>>}

ChamadasValidarCnpj == [op : {"_validar_cnpj"}, cnpj : EntradasCnpj]
\* first lines of a document: what the classification patterns look for
Cabecalhos ==
    {<<>>,
     <<"D", "A", "N", "F", "E">>,
     <<"N", "o", "t", "a", " ", "F", "i", "s", "c", "a", "l", " ", "E", "l",
       "e", "t", "r", "o^", "n", "i", "c", "a", " ", "N", "F", "-", "e", " ",
       "N", "o_", " ", "1", "2", "3", "4", "5", "6", "\n", "C", "h", "a",
       "v", "e", " ", "d", "e", " ", "A", "c", "e", "s", "s", "o", ":", " ",
       "3", "5", "2", "5", "1", "2", "1", "1", "2", "2", "2", "3", "3", "3",
       "0", "0", "0", "1", "8", "1", "5", "5", "0", "0", "1", "0", "0", "0",
       "1", "2", "3", "4", "5", "6", "1", "1", "2", "3", "4", "5", "6", "7",
       "8", "9">>,
     <<"D", "A", "S">>,
     <<"d", "a", "s", " ", "g", "p", "s">>,
     <<"G", "P", "S", " ", "D", "A", "S">>,
     <<"S", "i", "m", "p", "l", "e", "s", " ", "N", "a", "c", "i", "o", "n",
       "a", "l", " ", "D", "A", "S">>,
     <<"D", "o", "c", "u", "m", "e", "n", "t", "o", " ", "d", "e", " ", "A",
       "r", "r", "e", "c", "a", "d", "a", "c,", "a~", "o", " ", "d", "o",
       " ", "S", "i", "m", "p", "l", "e", "s", " ", "N", "a", "c", "i", "o",
       "n", "a", "l", "\n", "D", "A", "S">>,
     <<"D", "C", "T", "F", "W", "e", "b">>,
     <<"N", "F", "S", "-", "e", " ", "I", "S", "S">>,
     <<"C", "T", "-", "e", " ", "D", "A", "C", "T", "E">>,
     <<"I", "N", "S", "S", " ", "C", "N", "D">>,
     <<"D", "A", "S", "H">>,
     <<"D", "o", "c", "u", "m", "e", "n", "t", "o", " ", "f", "i", "s", "c",
       "a", "l">>}

\* the CNPJ, period and amount of a DAS, as in the simulated DAS text
CORPO_DAS ==
    <<"C", "N", "P", "J", ":", " ", "1", "2", ".", "3", "4", "5", ".", "6",
      "7", "8", "/", "0", "0", "0", "1", "-", "0", "0", "\n", "P", "e", "r",
      "i'", "o", "d", "o", " ", "d", "e", " ", "A", "p", "u", "r", "a", "c,",
      "a~", "o", ":", " ", "1", "2", "/", "2", "0", "2", "5", "\n", "V", "a",
      "l", "o", "r", " ", "T", "o", "t", "a", "l", ":", " ", "R", "$", " ",
      "8", "5", "0", ",", "0", "0">>

\* a DAS whose amount has a thousands dot
CORPO_DAS_MILHAR ==
    <<"C", "N", "P", "J", ":", " ", "1", "1", ".", "2", "2", "2", ".", "3",
    "3", "3", "/", "0", "0", "0", "1", "-", "8", "1", "\n", "P", "e", "r",
    "i'", "o", "d", "o", ":", " ", "0", "1", "/", "2", "0", "2", "6", ",",
    " ", "a", " ", "p", "a", "g", "a", "r", " ", "R", "$", " ", "1", "2", ".",
    "3", "4", "5", ",", "6", "7">>

\* what follows: the fields the extraction patterns look for
Corpos ==
    {CORPO_DAS,
     CORPO_DAS_MILHAR,
     <<>>,
     <<"C", "N", "P", "J", ":", " ", "1", "1", ".", "2", "2", "2", ".", "3",
       "3", "3", "/", "0", "0", "0", "1", "-", "8", "1", "\n", "D", "a", "t",
       "a", ":", " ", "2", "6", "/", "1", "2", "/", "2", "0", "2", "5", "\n",
       "V", "a", "l", "o", "r", ":", " ", "R", "$", " ", "1", ".", "5", "0",
       "0", ",", "0", "0">>,
     <<"C", "N", "P", "J", ":", " ", "1", "2", ".", "3", "4", "5", ".", "6",
       "7", "8", "/", "0", "0", "0", "1", "-", "0", "0", "\n", "V", "e", "n",
       "c", "i", "m", "e", "n", "t", "o", ":", " ", "3", "1", "/", "0", "2",
       "/", "2", "0", "2", "5", "\n", "V", "a", "l", "o", "r", " ", "T", "o",
       "t", "a", "l", ":", " ", "R", "$", " ", "8", "5", "0", ",", "0", "0">>,
     <<"P", "e", "r", "i'", "o", "d", "o", " ", "d", "e", " ", "A", "p", "u",
       "r", "a", "c,", "a~", "o", ":", " ", "1", "2", "/", "2", "0", "2",
       "5", "\n", "V", "a", "l", "o", "r", " ", "T", "o", "t", "a", "l", ":",
       " ", "R", "$", " ", "8", "5", "0", ",", "0", "0">>,
     <<"C", "N", "P", "J", ":", " ", "1", "1", ".", "2", "2", "2", ".", "3",
       "3", "3", "/", "0", "0", "0", "1", "-", "8", "1", "\n", "R", "$", " ",
       "0", ",", "0", "0">>,
     <<"B", "R", "L", " ", "1", ",", "5", "0", "0", ",", "0", "0", " ", "e",
       "m", " ", "2", "0", "/", "0", "1", "/", "2", "0", "2", "6">>}

\* OCREngine._simular_texto_ocr for a file named *nfe* or *nota*
TEXTO_SIMULADO_NFE ==
    <<"\n", " ", " ", " ", " ", " ", " ", " ", " ", " ", " ", " ", " ", "N",
      "O", "T", "A", " ", "F", "I", "S", "C", "A", "L", " ", "E", "L", "E",
      "T", "R", "O^", "N", "I", "C", "A", "\n", " ", " ", " ", " ", " ", " ",
      " ", " ", " ", " ", " ", " ", "N", "F", "-", "e", " ", "N", "o_", " ",
      "0", "0", "1", "2", "3", "4", "\n", " ", " ", " ", " ", " ", " ", " ",
      " ", " ", " ", " ", " ", "C", "h", "a", "v", "e", " ", "d", "e", " ",
      "A", "c", "e", "s", "s", "o", ":", " ", "3", "5", "2", "5", "0", "1",
      "1", "2", "3", "4", "5", "6", "7", "8", "0", "0", "0", "1", "0", "0",
      "5", "5", "0", "0", "1", "0", "0", "0", "1", "2", "3", "4", "5", "6",
      "1", "2", "3", "4", "5", "6", "7", "8", "9", "0", "\n", " ", " ", " ",
      " ", " ", " ", " ", " ", " ", " ", " ", " ", "C", "N", "P", "J", " ",
      "E", "m", "i", "t", "e", "n", "t", "e", ":", " ", "1", "2", ".", "3",
      "4", "5", ".", "6", "7", "8", "/", "0", "0", "0", "1", "-", "0", "0",
      "\n", " ", " ", " ", " ", " ", " ", " ", " ", " ", " ", " ", " ", "D",
      "a", "t", "a", " ", "E", "m", "i", "s", "s", "a~", "o", ":", " ", "2",
      "6", "/", "1", "2", "/", "2", "0", "2", "5", "\n", " ", " ", " ", " ",
      " ", " ", " ", " ", " ", " ", " ", " ", "V", "a", "l", "o", "r", " ",
      "T", "o", "t", "a", "l", ":", " ", "R", "$", " ", "1", ".", "5", "0",
      "0", ",", "0", "0", "\n", " ", " ", " ", " ", " ", " ", " ", " ", " ",
      " ", " ", " ", "I", "C", "M", "S", ":", " ", "R", "$", " ", "2", "7",
      "0", ",", "0", "0", "\n", " ", " ", " ", " ", " ", " ", " ", " ", " ",
      " ", " ", " ", "N", "C", "M", ":", " ", "8", "4", "7", "1", "5", "0",
      "1", "0", "\n", " ", " ", " ", " ", " ", " ", " ", " ", " ", " ", " ",
      " ", "C", "F", "O", "P", ":", " ", "5", "1", "0", "2", "\n", " ", " ",
      " ", " ", " ", " ", " ", " ", " ", " ", " ", " ">>

\* OCREngine._simular_texto_ocr for a file named *das*
TEXTO_SIMULADO_DAS ==
    <<"\n", " ", " ", " ", " ", " ", " ", " ", " ", " ", " ", " ", " ", "D",
      "O", "C", "U", "M", "E", "N", "T", "O", " ", "D", "E", " ", "A", "R",
      "R", "E", "C", "A", "D", "A", "C,", "A~", "O", " ", "D", "O", " ", "S",
      "I", "M", "P", "L", "E", "S", " ", "N", "A", "C", "I", "O", "N", "A",
      "L", "\n", " ", " ", " ", " ", " ", " ", " ", " ", " ", " ", " ", " ",
      "D", "A", "S", "\n", " ", " ", " ", " ", " ", " ", " ", " ", " ", " ",
      " ", " ", "C", "N", "P", "J", ":", " ", "1", "2", ".", "3", "4", "5",
      ".", "6", "7", "8", "/", "0", "0", "0", "1", "-", "0", "0", "\n", " ",
      " ", " ", " ", " ", " ", " ", " ", " ", " ", " ", " ", "P", "e", "r",
      "i'", "o", "d", "o", " ", "d", "e", " ", "A", "p", "u", "r", "a", "c,",
      "a~", "o", ":", " ", "1", "2", "/", "2", "0", "2", "5", "\n", " ", " ",
      " ", " ", " ", " ", " ", " ", " ", " ", " ", " ", "D", "a", "t", "a",
      " ", "V", "e", "n", "c", "i", "m", "e", "n", "t", "o", ":", " ", "2",
      "0", "/", "0", "1", "/", "2", "0", "2", "6", "\n", " ", " ", " ", " ",
      " ", " ", " ", " ", " ", " ", " ", " ", "V", "a", "l", "o", "r", " ",
      "T", "o", "t", "a", "l", ":", " ", "R", "$", " ", "8", "5", "0", ",",
      "0", "0", "\n", " ", " ", " ", " ", " ", " ", " ", " ", " ", " ", " ",
      " ", "C", "o'", "d", "i", "g", "o", " ", "d", "e", " ", "B", "a", "r",
      "r", "a", "s", ":", " ", "8", "5", "8", "9", "0", "0", "0", "0", "0",
      "0", "8", "5", "0", "0", "0", "0", "0", "0", "0", "0", "0", "0", "0",
      "0", "0", "0", "0", "1", "2", "3", "4", "5", "6", "7", "8", "9", "0",
      "1", "2", "3", "4", "5", "6", "7", "\n", " ", " ", " ", " ", " ", " ",
      " ", " ", " ", " ", " ", " ">>

\* The texts _extrair_texto returns: read from the file, or simulated.
Textos ==
    {c \o <<"\n">> \o b : c \in Cabecalhos, b \in Corpos}
        \cup {<<>>, TEXTO_SIMULADO_NFE, TEXTO_SIMULADO_DAS}

TiposEsperados == {None, Some(""), Some(DAS), Some(BOLETO)}

ChamadasClassificar ==
    [op : {"_classificar_documento"}, texto : Textos,
     tipo_esperado : TiposEsperados]

ChamadasProcessarOcr ==
    [op : {"ocr.processar_documento"}, texto : Textos,
     tipo_esperado : TiposEsperados]

\* str(uuid.uuid4()): an identifier no earlier document has
UUIDS == {"u1", "u2"}

ChamadasOcrService ==
    [op : {"ocr_service.processar_documento"}, texto : Textos,
     empresa_id : {Some("e1")}, tipo_esperado : {None, Some(DAS)}]

\* a PDF whose pages have no text
PDF_SEM_TEXTO ==
    <<>>

\* a DCTFWeb receipt
PDF_DCTFWEB ==
    <<"D", "C", "T", "F", "W", "e", "b", "\n", "C", "N", "P", "J", ":", " ",
       "1", "1", ".", "2", "2", "2", ".", "3", "3", "3", "/", "0", "0", "0",
       "1", "-", "8", "1", "\n", "R", "a", "z", "a~", "o", " ", "S", "o",
       "c", "i", "a", "l", ":", " ", "A", "C", "M", "E", " ", "L", "T", "D",
       "A", "\n", "P", "e", "r", "i'", "o", "d", "o", " ", "d", "e", " ",
       "A", "p", "u", "r", "a", "c,", "a~", "o", ":", " ", "0", "1", "/",
       "2", "0", "2", "4", "\n", "V", "a", "l", "o", "r", " ", "T", "o", "t",
       "a", "l", ":", " ", "R", "$", " ", "1", ".", "2", "3", "4", ",", "5",
       "6", "\n", "V", "e", "n", "c", "i", "m", "e", "n", "t", "o", ":", " ",
       "2", "0", "/", "0", "2", "/", "2", "0", "2", "4", "\n", "N", "u'",
       "m", "e", "r", "o", " ", "d", "o", " ", "R", "e", "c", "i", "b", "o",
       ":", " ", "A", "B", "-", "1", "2">>

\* a DAS with the labels the DCTFWeb patterns know too
PDF_DAS ==
    <<"D", "A", "S", "\n", "C", "N", "P", "J", ":", " ", "1", "1", ".", "2",
       "2", "2", ".", "3", "3", "3", "/", "0", "0", "0", "1", "-", "8", "1",
       "\n", "P", "e", "r", "i'", "o", "d", "o", " ", "d", "e", " ", "A",
       "p", "u", "r", "a", "c,", "a~", "o", ":", " ", "0", "1", "/", "2",
       "0", "2", "4", "\n", "V", "a", "l", "o", "r", " ", "T", "o", "t", "a",
       "l", ":", " ", "R", "$", " ", "1", "0", "0", ",", "0", "0", "\n", "V",
       "e", "n", "c", "i", "m", "e", "n", "t", "o", ":", " ", "2", "0", "/",
       "0", "2", "/", "2", "0", "2", "4">>

\* a DAS with the labels of the DAS patterns only
PDF_DAS_PA ==
    <<"C", "N", "P", "J", ":", " ", "1", "1", ".", "2", "2", "2", ".", "3",
       "3", "3", "/", "0", "0", "0", "1", "-", "8", "1", "\n", "P", "A", ":",
       " ", "0", "1", "/", "2", "0", "2", "4", "\n", "V", "a", "l", "o", "r",
       " ", "d", "o", " ", "D", "o", "c", "u", "m", "e", "n", "t", "o", ":",
       " ", "R", "$", " ", "1", "0", "0", ",", "0", "0">>

\* a DAS with its digitable line
PDF_DAS_LINHA ==
    <<"C", "N", "P", "J", ":", " ", "1", "1", ".", "2", "2", "2", ".", "3",
    "3", "3", "/", "0", "0", "0", "1", "-", "8", "1", "\n", "P", "A", ":", 
    " ", "0", "1", "/", "2", "0", "2", "4", "\n", "V", "a", "l", "o", "r", " ",
    "d", "o", " ", "D", "o", "c", "u", "m", "e", "n", "t", "o", ":", " ", "R",
    "$", " ", "1", "0", "0", ",", "0", "0", "\n", "D", "a", "t", "a", " ",
    "d", "e", " ", "V", "e", "n", "c", "i", "m", "e", "n", "t", "o", ":", " ",
    "2", "0", "/", "0", "2", "/", "2", "0", "2", "4", "\n", "1", "2", "3",
    "4", "5", ".", "1", "2", "3", "4", "5", " ", "1", "2", "3", "4", "5", ".",
    "1", "2", "3", "4", "5", "6", " ", "1", "2", "3", "4", "5", ".", "1", "2",
    "3", "4", "5", "6", " ", "1", " ", "1", "2", "3", "4", "5", "6", "7", "8",
    "9", "0", "1", "2", "3", "4">>

\* a document of which only the CNPJ is read
PDF_SO_CNPJ ==
    <<"C", "N", "P", "J", ":", " ", "1", "1", ".", "2", "2", "2", ".", "3",
       "3", "3", "/", "0", "0", "0", "1", "-", "8", "1">>

\* a DCTFWeb receipt without period
PDF_SEM_PERIODO ==
    <<"C", "N", "P", "J", " ", "1", "1", "2", "2", "2", "3", "3", "3", "0",
       "0", "0", "1", "8", "1", "\n", "V", "a", "l", "o", "r", " ", "T", "o",
       "t", "a", "l", ":", " ", "5", "0", "\n", "R", "e", "c", "i", "b", "o",
       ":", " ", "A", "B", "-", "1">>

\* a second DCTFWeb document of the same CNPJ and period, with a date that
\* does not exist
PDF_RETIFICADORA ==
    <<"C", "N", "P", "J", ":", " ", "1", "1", ".", "2", "2", "2", ".", "3",
       "3", "3", "/", "0", "0", "0", "1", "-", "8", "1", "\n", "C", "o", "m",
       "p", "e", "t", "e^", "n", "c", "i", "a", ":", " ", "0", "1", "/", "2",
       "0", "2", "4", "\n", "T", "O", "T", "A", "L", ":", " ", "2", ".", "0",
       "0", "0", ",", "0", "0", "\n", "V", "e", "n", "c", "e", " ", "e", "m",
       ":", " ", "3", "1", "/", "0", "2", "/", "2", "0", "2", "4">>

\* bytes that pdfplumber cannot open (empty or malformed)
PDF_ILEGIVEL == [legivel |-> FALSE, texto |-> <<>>]

\* the bytes of a PDF with this text
Pdf(texto) == [legivel |-> TRUE, texto |-> texto]

Conteudos ==
    {PDF_ILEGIVEL} \cup
    {Pdf(texto) : texto \in {PDF_SEM_TEXTO, PDF_DCTFWEB, PDF_DAS, PDF_DAS_PA,
                             PDF_DAS_LINHA, PDF_SO_CNPJ, PDF_SEM_PERIODO,
                             PDF_RETIFICADORA}}

\* DCTFWebParser.parse_bytes and DASParser.parse_bytes
ChamadasParseBytes ==
    [op : {"dctfweb.parse_bytes", "das.parse_bytes"}, pdf_bytes : Conteudos]

\* upload_documento: the record it inserts
DocumentoPendente(id) ==
    [id                 |-> id,
     tipo               |-> OUTRO,
     status             |-> PENDENTE,
     empresa_id         |-> None,
     caminho_arquivo    |-> id,
     dados_extraidos    |-> None,
     confianca_extracao |-> Confianca(0, 1),
     erro_processamento |-> None,
     obrigacao_id       |-> None,
     cnpj               |-> None]

\* the documents of the data base
IdsDeDocumentos == {"d1", "d2"}

\* an identifier that no document has
ID_DESCONHECIDO == "d9"

\* Either nothing was processed yet, or document d2 was, from the DCTFWeb
\* receipt, which created the first obligation.
DocumentosPendentes == [id \in IdsDeDocumentos |-> DocumentoPendente(id)]

DocumentosComProcessado(dados) ==
    [DocumentosPendentes EXCEPT
        !["d2"] = DocumentoProcessado(DocumentoPendente("d2"), DCTFWEB, dados,
                                      Some(1))]

ObrigacoesComProcessado(dados) ==
    << ObrigacaoNova(1, DocumentoPendente("d2"), DCTFWEB, dados) >>

BancoPendente == [documentos |-> DocumentosPendentes, obrigacoes |-> <<>>]

BancosIniciais ==
    { BancoPendente,
      [documentos |-> DocumentosComProcessado(DctfwebParseText(PDF_DCTFWEB)),
       obrigacoes |-> ObrigacoesComProcessado(DctfwebParseText(PDF_DCTFWEB))] }

\* processar_documento(documento_id, content): content is None or the bytes;
\* disco is what the file of the document holds, None when it is not there.
\* upload_documento passes the bytes it has just written to the file.
ChamadasProcessarDocumento ==
    [op : {"processar_documento"},
     documento_id : IdsDeDocumentos \cup {ID_DESCONHECIDO},
     content : {None}, disco : {None} \cup {Some(c) : c \in Conteudos}]
    \cup
    {[op |-> "processar_documento", documento_id |-> id,
      content |-> Some(c), disco |-> Some(c)] :
        id \in IdsDeDocumentos \cup {ID_DESCONHECIDO}, c \in Conteudos}

\* the states of the data base an invocation may find
BancosDe(c) ==
    IF c.op = "processar_documento" THEN BancosIniciais ELSE {BancoPendente}
Chamadas ==
    ChamadasSimples \cup ChamadasValidarRegra \cup ChamadasAuditarSped
        \cup ChamadasCruzar \cup ChamadasGerarRelatorio
        \cup ChamadasExecutarAuditoria
        \cup ChamadasFatorR \cup ChamadasSimulacao
        \cup ChamadasValidarCnpj
        \cup ChamadasClassificar \cup ChamadasProcessarOcr
        \cup ChamadasProcessarDocumento

Pendente == [status |-> "PENDENTE"]
Parado == [pc |-> "-"]

Init ==
    /\ chamada \in Chamadas
    /\ retorno = Pendente
    /\ andamento = Parado
    /\ auditorias = {}
    /\ ocr_documentos = {}
    /\ \E banco \in BancosDe(chamada) :
           /\ documentos = banco.documentos
           /\ obrigacoes = banco.obrigacoes

ChamarCalcularSimplesNacional ==
    /\ chamada.op = "calcular_simples_nacional"
    /\ retorno = Pendente
    /\ retorno' = CalcularSimplesNacional(chamada.receita_bruta_12m,
                      chamada.receita_mensal, chamada.anexo, chamada.fator_r)
    /\ UNCHANGED <<chamada, andamento, db>>

ChamarCalcularFatorR ==
    /\ chamada.op = "calcular_fator_r"
    /\ retorno = Pendente
    /\ retorno' = CalcularFatorR(chamada.folha_salarios_12m,
                                 chamada.receita_bruta_12m)
    /\ UNCHANGED <<chamada, andamento, db>>

ChamarSimularEconomiaFatorR ==
    /\ chamada.op = "simular_economia_fator_r"
    /\ retorno = Pendente
    /\ retorno' = SimularEconomiaFatorR(chamada.receita_bruta_12m,
                      chamada.receita_mensal, chamada.folha_atual_12m)
    /\ UNCHANGED <<chamada, andamento, db>>
ChamarValidarCnpj ==
    /\ chamada.op = "_validar_cnpj"
    /\ retorno = Pendente
    /\ retorno' = [status |-> "OK", valido |-> ValidarCnpj(chamada.cnpj)]
    /\ UNCHANGED <<chamada, andamento, db>>
ChamarClassificarDocumento ==
    /\ chamada.op = "_classificar_documento"
    /\ retorno = Pendente
    /\ retorno' = [status |-> "OK",
                   classificacao |-> ClassificarDocumento(chamada.texto,
                                         chamada.tipo_esperado)]
    /\ UNCHANGED <<chamada, andamento, db>>
ChamarProcessarDocumentoOcr ==
    /\ chamada.op = "ocr.processar_documento"
    /\ retorno = Pendente
    /\ retorno' = ProcessarDocumentoOcr(chamada.texto, chamada.tipo_esperado)
    /\ UNCHANGED <<chamada, andamento, db>>
ChamarValidarRegra ==
    /\ chamada.op = "_validar_regra"
    /\ retorno = Pendente
    /\ retorno' = [status |-> "OK",
                   achado |-> ValidarRegra(chamada.regra, chamada.dados)]
    /\ UNCHANGED <<chamada, andamento, db>>

\* auditar_sped: the parser's summary is a local, kept in andamento
ChamarAuditarSped ==
    /\ chamada.op = "auditar_sped"
    /\ retorno = Pendente
    /\ \E dados_sped \in SimularParserSped :
           /\ retorno' = [status |-> "OK",
                          lista |-> AuditarSped(chamada.tipo, dados_sped)]
           /\ andamento' = [pc |-> "fim", dados_sped |-> dados_sped]
    /\ UNCHANGED <<chamada, db>>

ChamarCruzarDadosFiscais ==
    /\ chamada.op = "cruzar_dados_fiscais"
    /\ retorno = Pendente
    /\ retorno' = [status |-> "OK",
                   lista |-> CruzarDadosFiscais(chamada.dados_sped,
                                 chamada.dados_externos)]
    /\ UNCHANGED <<chamada, andamento, db>>

ChamarGerarRelatorioAuditoria ==
    /\ chamada.op = "gerar_relatorio_auditoria"
    /\ retorno = Pendente
    /\ retorno' = GerarRelatorioAuditoria(chamada.nao_conformidades,
                      chamada.dados_sped)
    /\ UNCHANGED <<chamada, andamento, db>>

\* executar_auditoria_sped up to its first await: the type, the internal
\* audit (on a summary of its own, local to auditar_sped) and the summary
\* the service parses for itself
ExecutarAuditoriaSped_Auditar ==
    /\ chamada.op = "executar_auditoria_sped"
    /\ andamento = Parado
    /\ \E dados_auditados \in SimularParserSped, dados_sped \in SimularParserSped :
           andamento' =
               [pc |-> "coletar",
                tipo_auditoria |-> TipoDoPedido(chamada.tipo),
                nao_conformidades |->
                    AuditarSped(TipoDoPedido(chamada.tipo), dados_auditados),
                dados_sped |-> dados_sped]
    /\ UNCHANGED <<chamada, retorno, db>>

\* executar_auditoria_sped from the external data on: cross-reference,
\* report, insertion of the audit, return
ExecutarAuditoriaSped_Relatar ==
    /\ chamada.op = "executar_auditoria_sped"
    /\ andamento.pc = "coletar"
    /\ \E dados_externos \in ColetarDadosExternos :
           LET nao_conformidades_cruzamento ==
                   CruzarDadosFiscais(andamento.dados_sped, dados_externos)
               todas_nao_conformidades ==
                   andamento.nao_conformidades \o nao_conformidades_cruzamento
               relatorio ==
                   GerarRelatorioAuditoria(todas_nao_conformidades,
                                           andamento.dados_sped)
           IN /\ andamento' =
                     [pc |-> "fim",
                      tipo_auditoria |-> andamento.tipo_auditoria,
                      nao_conformidades |-> andamento.nao_conformidades,
                      dados_sped |-> andamento.dados_sped,
                      dados_externos |-> dados_externos,
                      nao_conformidades_cruzamento |->
                          nao_conformidades_cruzamento]
              /\ auditorias' = auditorias
                     \cup {Auditoria(andamento.tipo_auditoria, relatorio)}
              /\ retorno' = relatorio
    /\ UNCHANGED <<chamada, documentos, obrigacoes, ocr_documentos>>

ChamarDctfwebParseBytes ==
    /\ chamada.op = "dctfweb.parse_bytes"
    /\ retorno = Pendente
    /\ retorno' = DctfwebParseBytes(chamada.pdf_bytes)
    /\ UNCHANGED <<chamada, andamento, db>>
ChamarDasParseBytes ==
    /\ chamada.op = "das.parse_bytes"
    /\ retorno = Pendente
    /\ retorno' = DasParseBytes(chamada.pdf_bytes)
    /\ UNCHANGED <<chamada, andamento, db>>

\* OCRService.processar_documento, the end: insert_one and the answer
OcrService_Inserir(documento) ==
    /\ ocr_documentos' = ocr_documentos \cup {documento}
    /\ retorno' = RespostaOcr(documento)

\* OCRService.processar_documento from the engine's result on
OcrService_Registrar(resultado_ocr) ==
    \E doc_id \in UUIDS :
        OcrService_Inserir(DocumentoOcr(doc_id, chamada.empresa_id,
                                        resultado_ocr))

\* OCRService.processar_documento: the engine's result, the insertion into
\* db.ocr_documentos and the answer
OcrService_ProcessarDocumento ==
    /\ chamada.op = "ocr_service.processar_documento"
    /\ retorno = Pendente
    /\ OcrService_Registrar(ProcessarDocumentoOcr(chamada.texto,
                                                  chamada.tipo_esperado))
    /\ UNCHANGED <<chamada, andamento, auditorias, documentos, obrigacoes>>

\* processar_documento from the success of the parsing on: the obligation,
\* the update of the document and the result
ProcessarDocumento_Processado(doc, parsed) ==
    /\ obrigacoes' = ObrigacoesDepois(doc, parsed.tipo, parsed.dados)
    /\ documentos' =
           [documentos EXCEPT
               ![doc.id] = DocumentoProcessado(documentos[doc.id], parsed.tipo,
                               parsed.dados,
                               ObrigacaoId(parsed.tipo, parsed.dados))]
    /\ retorno' = Resultado(doc.id, TRUE, Some(parsed.tipo),
                            Some(parsed.dados),
                            ObrigacaoId(parsed.tipo, parsed.dados), <<>>)

\* processar_documento, the except clauses: the message is stored in the
\* document and in the result
ProcessarDocumento_Erro(doc, mensagem) ==
    /\ documentos' =
           [documentos EXCEPT
               ![doc.id] = DocumentoComErro(documentos[doc.id], mensagem)]
    /\ retorno' = Resultado(doc.id, FALSE, None, None, None, <<mensagem>>)
    /\ UNCHANGED obrigacoes

\* processar_documento after _parse_pdf: the rest of the try block, or the
\* except clause of PDFParsingError
ProcessarDocumento_Interpretar(doc, parsed) ==
    IF parsed.status = "OK"
    THEN ProcessarDocumento_Processado(doc, parsed)
    ELSE ProcessarDocumento_Erro(doc, parsed.mensagem)

\* processar_documento up to the first update: find_one, ValueError for an
\* unknown id, status "processando"
ProcessarDocumento_Iniciar ==
    /\ chamada.op = "processar_documento"
    /\ retorno = Pendente
    /\ andamento = Parado
    /\ IF chamada.documento_id \notin DOMAIN documentos
       THEN /\ retorno' = [status |-> "ValueError"]
            /\ UNCHANGED <<andamento, documentos>>
       ELSE /\ andamento' = [pc  |-> "ler",
                             doc |-> documentos[chamada.documento_id]]
            /\ documentos' =
                   [documentos EXCEPT
                       ![chamada.documento_id].status = PROCESSANDO]
            /\ UNCHANGED retorno
    /\ UNCHANGED <<chamada, auditorias, obrigacoes, ocr_documentos>>

\* the bytes processar_documento parses: its argument, or the file
ConteudoLido == IF chamada.content # None THEN chamada.content
                ELSE chamada.disco

\* processar_documento from the reading of the file on
ProcessarDocumento_Concluir ==
    /\ chamada.op = "processar_documento"
    /\ andamento.pc = "ler"
    /\ IF ConteudoLido = None
       THEN ProcessarDocumento_Erro(andamento.doc, "FileNotFoundError")
       ELSE ProcessarDocumento_Interpretar(andamento.doc,
                                            ParsePdf(ConteudoLido[1]))
    /\ andamento' = [pc |-> "fim", doc |-> andamento.doc]
    /\ UNCHANGED <<chamada, auditorias, ocr_documentos>>


Next ==
    \/ ChamarCalcularSimplesNacional
    \/ ChamarCalcularFatorR
    \/ ChamarSimularEconomiaFatorR
    \/ ChamarValidarCnpj
    \/ ChamarClassificarDocumento
    \/ ChamarProcessarDocumentoOcr
    \/ ChamarValidarRegra
    \/ ChamarAuditarSped
    \/ ChamarCruzarDadosFiscais
    \/ ChamarGerarRelatorioAuditoria
    \/ ExecutarAuditoriaSped_Auditar
    \/ ExecutarAuditoriaSped_Relatar
    \/ ProcessarDocumento_Iniciar
    \/ ProcessarDocumento_Concluir

Spec == Init /\ [][Next]_vars

(***************************************************************************)
(* The reading of documents outside DocumentoService: the two PDF parsers  *)
(* called on bytes, and OCRService.processar_documento, which stores the   *)
(* engine's result in db.ocr_documentos.                                   *)
(***************************************************************************)
ChamadasDeLeitura == ChamadasOcrService \cup ChamadasParseBytes

InitLeitura ==
    /\ chamada \in ChamadasDeLeitura
    /\ retorno = Pendente
    /\ andamento = Parado
    /\ auditorias = {}
    /\ ocr_documentos = {}
    /\ \E banco \in BancosDe(chamada) :
           /\ documentos = banco.documentos
           /\ obrigacoes = banco.obrigacoes

NextLeitura ==
    \/ ChamarDctfwebParseBytes
    \/ ChamarDasParseBytes
    \/ OcrService_ProcessarDocumento

SpecLeitura == InitLeitura /\ [][NextLeitura]_vars

(***************************************************************************)
(* Concurrent calls of DocumentoService.processar_documento.  Each call is *)
(* a coroutine: between two awaits it runs alone, and at an await on the   *)
(* data base another call may run.  The steps of a call are the stretches  *)
(* between its awaits on db.documentos and db.obrigacoes.  Here chamada    *)
(* holds the arguments of the calls, and andamento and retorno the locals  *)
(* and the result of each.                                                 *)
(***************************************************************************)
Tarefas == {1, 2}

\* the PDFs the concurrent calls are given
ConteudosConcorrentes ==
    {Pdf(PDF_DCTFWEB), Pdf(PDF_RETIFICADORA), Pdf(PDF_SO_CNPJ)}

\* _parse_pdf of each of them
ParsePdfConcorrente == [content \in ConteudosConcorrentes |-> ParsePdf(content)]

\* the first call is for document d1, the second for d1 or d2
ChamadasConcorrentes ==
    [op : {"processar_documento, concurrent"},
     chamadas : {c \in [Tarefas -> [documento_id : IdsDeDocumentos,
                                    content : ConteudosConcorrentes]] :
                    c[1].documento_id = "d1"}]

InitConcorrente ==
    /\ chamada \in ChamadasConcorrentes
    /\ retorno = [t \in Tarefas |-> Pendente]
    /\ andamento = [t \in Tarefas |-> Parado]
    /\ auditorias = {}
    /\ ocr_documentos = {}
    /\ \E banco \in BancosIniciais :
           /\ documentos = banco.documentos
           /\ obrigacoes = banco.obrigacoes

\* find_one of the document and the update of its status to "processando"
Tarefa_Iniciar(t) ==
    /\ andamento[t] = Parado
    /\ andamento' =
           [andamento EXCEPT
               ![t] = [pc  |-> "ler",
                       doc |-> documentos[chamada.chamadas[t].documento_id]]]
    /\ documentos' =
           [documentos EXCEPT
               ![chamada.chamadas[t].documento_id].status = PROCESSANDO]
    /\ UNCHANGED <<chamada, retorno, auditorias, obrigacoes, ocr_documentos>>

\* the end of a call: the update of the document and the result
Tarefa_Concluir(t, doc, parsed, obrigacao_id) ==
    /\ documentos' =
           [documentos EXCEPT
               ![doc.id] = DocumentoProcessado(documentos[doc.id], parsed.tipo,
                                               parsed.dados, obrigacao_id)]
    /\ retorno' =
           [retorno EXCEPT
               ![t] = Resultado(doc.id, TRUE, Some(parsed.tipo),
                                Some(parsed.dados), obrigacao_id, <<>>)]
    /\ andamento' = [andamento EXCEPT ![t] = [pc |-> "fim", doc |-> doc]]

\* the except clause of a call: the message is stored and returned
Tarefa_Erro(t, doc, mensagem) ==
    /\ documentos' =
           [documentos EXCEPT
               ![doc.id] = DocumentoComErro(documentos[doc.id], mensagem)]
    /\ retorno' =
           [retorno EXCEPT
               ![t] = Resultado(doc.id, FALSE, None, None, None, <<mensagem>>)]
    /\ andamento' = [andamento EXCEPT ![t] = [pc |-> "fim", doc |-> doc]]

\* what follows _parse_pdf up to the next await: the find_one of
\* _criar_ou_atualizar_obrigacao, or the update of the document when no
\* obligation is due
Tarefa_Interpretada(t, doc, parsed) ==
    IF parsed.status # "OK" THEN Tarefa_Erro(t, doc, parsed.mensagem)
    ELSE IF ~TemChaveDeObrigacao(parsed.tipo, parsed.dados)
    THEN Tarefa_Concluir(t, doc, parsed, None)
    ELSE /\ andamento' =
                [andamento EXCEPT
                    ![t] = [pc |-> "buscar", doc |-> doc, parsed |-> parsed]]
         /\ UNCHANGED <<retorno, documentos>>

\* _parse_pdf and what follows it up to the next await
Tarefa_Interpretar(t) ==
    /\ andamento[t].pc = "ler"
    /\ Tarefa_Interpretada(t, andamento[t].doc,
                           ParsePdfConcorrente[chamada.chamadas[t].content])
    /\ UNCHANGED <<chamada, auditorias, obrigacoes, ocr_documentos>>

\* the obligation with this cnpj, type and period, if any
ObrigacaoLida(tipo, dados) ==
    IF FindObrigacao(dados.cnpj, tipo, dados.periodo_apuracao) = 0 THEN None
    ELSE Some(obrigacoes[FindObrigacao(dados.cnpj, tipo,
                                       dados.periodo_apuracao)])

\* _criar_ou_atualizar_obrigacao, find_one: the obligation read, if any
Tarefa_BuscarObrigacao(t) ==
    /\ andamento[t].pc = "buscar"
    /\ andamento' =
           [andamento EXCEPT
               ![t] = [pc        |-> "gravar",
                       doc       |-> andamento[t].doc,
                       parsed    |-> andamento[t].parsed,
                       obrigacao |-> ObrigacaoLida(andamento[t].parsed.tipo,
                                        andamento[t].parsed.dados)]]
    /\ UNCHANGED <<chamada, retorno, db>>

\* update_one({"id": obrigacao_id}, {"$set": obrigacao_data}): the fields of
\* obrigacao_data, computed from the obligation that was read, are written
\* over the obligation as it is now
ObrigacaoGravada(atual, lida, documento, tipo, dados) ==
    [ObrigacaoAtualizada(lida, documento, tipo, dados) EXCEPT
        !.data_vencimento =
            IF GetChave(dados, "data_vencimento", None) # None
            THEN dados.data_vencimento ELSE atual.data_vencimento,
        !.documento_ids =
            IF documento.id \in Imagem(lida.documento_ids)
            THEN atual.documento_ids ELSE @]

\* _criar_ou_atualizar_obrigacao, update_one or insert_one, as the find_one
\* decided
Tarefa_Gravar(t, a) ==
    IF a.obrigacao # None
    THEN /\ obrigacoes' =
                [i \in 1..Len(obrigacoes) |->
                    IF obrigacoes[i].id = a.obrigacao[1].id
                    THEN ObrigacaoGravada(obrigacoes[i], a.obrigacao[1],
                             a.doc, a.parsed.tipo, a.parsed.dados)
                    ELSE obrigacoes[i]]
         /\ andamento' =
                [andamento EXCEPT
                    ![t] = [pc |-> "atualizar", doc |-> a.doc,
                            parsed |-> a.parsed,
                            obrigacao_id |-> a.obrigacao[1].id]]
    ELSE /\ obrigacoes' =
                Append(obrigacoes,
                       ObrigacaoNova(NovoId, a.doc, a.parsed.tipo,
                                     a.parsed.dados))
         /\ andamento' =
                [andamento EXCEPT
                    ![t] = [pc |-> "atualizar", doc |-> a.doc,
                            parsed |-> a.parsed,
                            obrigacao_id |-> NovoId]]

Tarefa_GravarObrigacao(t) ==
    /\ andamento[t].pc = "gravar"
    /\ Tarefa_Gravar(t, andamento[t])
    /\ UNCHANGED <<chamada, retorno, auditorias, documentos, ocr_documentos>>

\* the update of the document after the obligation, and the result
Tarefa_AtualizarDocumento(t) ==
    /\ andamento[t].pc = "atualizar"
    /\ Tarefa_Concluir(t, andamento[t].doc, andamento[t].parsed,
                       Some(andamento[t].obrigacao_id))
    /\ UNCHANGED <<chamada, auditorias, obrigacoes, ocr_documentos>>

NextConcorrente ==
    \/ \E t \in Tarefas : Tarefa_Iniciar(t)
    \/ \E t \in Tarefas : Tarefa_Interpretar(t)
    \/ \E t \in Tarefas : Tarefa_BuscarObrigacao(t)
    \/ \E t \in Tarefas : Tarefa_GravarObrigacao(t)
    \/ \E t \in Tarefas : Tarefa_AtualizarDocumento(t)

SpecConcorrente == InitConcorrente /\ [][NextConcorrente]_vars


Simples == chamada.op = "calcular_simples_nacional" /\ retorno # Pendente

Computado == Simples /\ retorno.status = "SUCESSO"

(***************************************************************************)
(* C1.  With fator_r supplied and the caller's annex III or V, the annex   *)
(* used is III iff fator_r >= 0.28 and V otherwise; so, for a revenue_12m  *)
(* within the limit, the call with the other of the two annexes returns    *)
(* the same annex, bracket, effective rate and tax due.                    *)
(***************************************************************************)
OutroAnexo(anexo) == IF anexo = "anexo_iii" THEN "anexo_v" ELSE "anexo_iii"

C1_FatorRDecideAnexo ==
    (/\ Simples
     /\ chamada.fator_r # None
     /\ chamada.anexo \in {"anexo_iii", "anexo_v"}
     /\ chamada.receita_bruta_12m <= 4800000)
    => LET outro == CalcularSimplesNacional(chamada.receita_bruta_12m,
                        chamada.receita_mensal, OutroAnexo(chamada.anexo),
                        chamada.fator_r)
       IN /\ retorno.status = "SUCESSO"
          /\ retorno.anexo =
                 (IF chamada.fator_r[1] >= 2800 THEN "anexo_iii" ELSE "anexo_v")
          /\ outro.status = "SUCESSO"
          /\ outro.anexo = retorno.anexo
          /\ outro.faixa = retorno.faixa
          /\ outro.aliquota_efetiva = retorno.aliquota_efetiva
          /\ outro.valor_das = retorno.valor_das

C1_Witness ==
    /\ Computado
    /\ chamada.anexo = "anexo_v"
    /\ chamada.fator_r = Some(3000)
    /\ retorno.anexo = "anexo_iii"

(***************************************************************************)
(* C2.  A revenue_12m above 4,800,000 returns status EXCEDIDO with rate 0  *)
(* and tax 0 whatever the other arguments are, an annex that is not in the *)
(* table included: no bracket is looked up and nothing is raised.          *)
(***************************************************************************)
C2_AcimaDoLimiteExcedido ==
    (Simples /\ chamada.receita_bruta_12m > 4800000)
    => /\ retorno.status = "EXCEDIDO"
       /\ retorno.aliquota_efetiva = 0
       /\ retorno.valor_das = 0
       /\ "faixa" \notin DOMAIN retorno

C2_Witness ==
    /\ Simples
    /\ chamada.receita_bruta_12m = 5000000
    /\ chamada.anexo = "anexo_vi"
    /\ retorno.status = "EXCEDIDO"

(***************************************************************************)
(* C3.  The bracket of a computed result is the first bracket of the annex *)
(* used whose ceiling is >= revenue_12m (a revenue equal to a ceiling      *)
(* selects that bracket), and the last bracket if there is none.           *)
(***************************************************************************)
C3_PrimeiraFaixaQueCobre ==
    Computado
    => LET faixas == TABELA_SIMPLES[retorno.anexo]
           cobrem == {i \in 1..Len(faixas) :
                         faixas[i].limite >= chamada.receita_bruta_12m}
           i0     == IF cobrem = {} THEN Len(faixas)
                     ELSE CHOOSE i \in cobrem : \A j \in cobrem : i <= j
       IN retorno.faixa = faixas[i0]

C3_Witness ==
    /\ Computado
    /\ chamada.receita_bruta_12m = 180000
    /\ retorno.faixa.limite = 180000

(***************************************************************************)
(* C4.  The effective rate, compared in units of 1/100000 (0.001 %).       *)
(***************************************************************************)
\* floor(d * 10^s) for a Decimal d that is not negative
FloorScaled(d, s) ==
    LET k == d.exp + s
    IN IF k >= 0 THEN ValueOf(d.dig \o Zeros(k))
       ELSE ValueOf(SubSeq(d.dig, 1, Len(d.dig) + k))

\* floor and ceiling of d * 10^5 / r, for integers d >= 0 and r > 0
Floor5(d, r) == ((d * 1000) \div r) * 100 + ((((d * 1000) % r) * 100) \div r)
Ceil5(d, r) ==
    Floor5(d, r) + (IF (((d * 1000) % r) * 100) % r = 0 THEN 0 ELSE 1)

\* floor of (r * nominal - deduction) / r in 1/100000, for r # 0 and a
\* deduction >= 0
Formula5(r, faixa) ==
    IF r > 0 THEN faixa.aliquota * 100 - Ceil5(faixa.deducao, r)
    ELSE faixa.aliquota * 100 + Floor5(faixa.deducao, -r)

Max(a, b) == IF a >= b THEN a ELSE b

\* the rate returned (a percentage), in 1/100000
Aliquota5 == FloorScaled(retorno.aliquota_efetiva, 3)

QuatroPorCento == [neg |-> FALSE, dig |-> <<4>>, exp |-> 0]

ExemploAnexoIII ==
    (chamada.receita_bruta_12m = 500000 /\ retorno.anexo = "anexo_iii")
    => /\ retorno.faixa = [limite |-> 720000, aliquota |-> 135,
                           deducao |-> 17640]
       /\ retorno.aliquota_efetiva =
              [neg |-> FALSE, dig |-> <<9, 9, 7, 2>>, exp |-> -3]

\* C4 as claimed: every computed rate is max(0.04, (revenue_12m * nominal -
\* deduction) / revenue_12m) for the selected bracket, and never below 0.04
C4_Original ==
    Computado
    => /\ ~ DecLess(retorno.aliquota_efetiva, QuatroPorCento)
       /\ chamada.receita_bruta_12m # 0
              => Aliquota5 =
                     Max(4000, Formula5(chamada.receita_bruta_12m, retorno.faixa))
       /\ ExemploAnexoIII

\* C4 as amended: for revenue_12m > 0 the computed rate is max(0.04,
\* (revenue_12m * nominal - deduction) / revenue_12m) for the selected
\* bracket; for revenue_12m <= 0 it is 0.04; it is never below 0.04; and
\* revenue_12m = 500000 under annex III selects the bracket with ceiling
\* 720000 and yields 49860/500000 = 9.972 %
C4_AliquotaEfetiva ==
    Computado
    => /\ ~ DecLess(retorno.aliquota_efetiva, QuatroPorCento)
       /\ chamada.receita_bruta_12m > 0
              => Aliquota5 =
                     Max(4000, Formula5(chamada.receita_bruta_12m, retorno.faixa))
       /\ chamada.receita_bruta_12m <= 0
              => retorno.aliquota_efetiva = QuatroPorCento
       /\ ExemploAnexoIII

C4_Witness ==
    /\ Computado
    /\ chamada.receita_bruta_12m = 0
    /\ retorno.anexo = "anexo_v"
    /\ retorno.aliquota_efetiva = QuatroPorCento

(***************************************************************************)
(* C5.  The tax due of a computed result is monthly_revenue times the      *)
(* effective rate, rounded half up (half away from zero) to 2 decimals.    *)
(***************************************************************************)
Abs(n) == IF n < 0 THEN -n ELSE n

\* the exact product |monthly revenue| * rate: its digits, and the number
\* of them that lie below the centavo
ProdutoExato ==
    [dig |-> MulLoop(retorno.aliquota_efetiva.dig, Abs(chamada.receita_mensal),
                     Len(retorno.aliquota_efetiva.dig), 0, <<>>),
     abaixo |-> 2 - retorno.aliquota_efetiva.exp]

MeioParaCima ==
    LET p     == ProdutoExato
        cheio == Zeros(p.abaixo - Len(p.dig) + 1) \o p.dig
        n     == Len(cheio) - p.abaixo
    IN IF p.abaixo <= 0 THEN ValueOf(p.dig \o Zeros(-p.abaixo))
       ELSE ValueOf(SubSeq(cheio, 1, n)) + (IF cheio[n + 1] >= 5 THEN 1 ELSE 0)

C5_ValorDasMeioParaCima ==
    Computado
    => retorno.valor_das =
           (IF chamada.receita_mensal < 0 THEN -MeioParaCima ELSE MeioParaCima)

\* 0.75 * 0.06 = 0.045 is rounded to 0.05
C5_Witness ==
    /\ Computado
    /\ chamada.receita_mensal = 75
    /\ retorno.aliquota_efetiva = [neg |-> FALSE, dig |-> <<6>>, exp |-> 0]
    /\ retorno.valor_das = 5

(***************************************************************************)
(* C6.  Monotonicity of the tax due in revenue_12m within a bracket.       *)
(***************************************************************************)
\* the calls of the same monthly revenue, annex and fator_r with a larger
\* revenue_12m that falls in the same bracket
MesmaFaixaAcima ==
    {r \in Receitas12m :
        /\ r >= chamada.receita_bruta_12m
        /\ r <= 4800000
        /\ CalcularSimplesNacional(r, chamada.receita_mensal, chamada.anexo,
               chamada.fator_r).indice_faixa = retorno.indice_faixa}

NaoDecresceNaFaixa ==
    \A r \in MesmaFaixaAcima :
        CalcularSimplesNacional(r, chamada.receita_mensal, chamada.anexo,
            chamada.fator_r).valor_das >= retorno.valor_das

\* C6 as claimed: for any annex and any fixed monthly revenue, within one
\* bracket the tax due does not decrease as revenue_12m grows in
\* 0..4,800,000 (a decrease occurs only across a bracket ceiling)
C6_Original ==
    (Computado /\ chamada.receita_bruta_12m >= 0) => NaoDecresceNaFaixa

\* C6 as amended: the same, for a monthly revenue that is not negative
C6_MonotonoNaFaixa ==
    (Computado /\ chamada.receita_bruta_12m >= 0 /\ chamada.receita_mensal >= 0)
    => NaoDecresceNaFaixa

C6_Witness ==
    /\ Computado
    /\ chamada.receita_bruta_12m = 360001
    /\ chamada.receita_mensal = 5000000
    /\ retorno.anexo = "anexo_iii"
    /\ 720000 \in MesmaFaixaAcima
    /\ CalcularSimplesNacional(720000, chamada.receita_mensal, chamada.anexo,
           chamada.fator_r).valor_das > retorno.valor_das

(***************************************************************************)
(* The audit reports: those of a direct call of gerar_relatorio_auditoria, *)
(* and those of executar_auditoria_sped.                                   *)
(***************************************************************************)
RelatorioDireto ==
    chamada.op = "gerar_relatorio_auditoria" /\ retorno # Pendente

RelatorioDoServico ==
    chamada.op = "executar_auditoria_sped" /\ retorno # Pendente

\* the findings the report was made from
AchadosDoRelatorio ==
    IF RelatorioDireto THEN chamada.nao_conformidades
    ELSE andamento.nao_conformidades \o andamento.nao_conformidades_cruzamento

Quantos(lista, s) == Cardinality({i \in 1..Len(lista) : lista[i].severidade = s})

PenalidadeDe(lista) ==
    10 * Quantos(lista, "CRITICO") + 5 * Quantos(lista, "AVISO")
        + Quantos(lista, "INFORMATIVO")

(***************************************************************************)
(* C7.  The score of a report is max(0, 100 - (10 criticos + 5 avisos +    *)
(* informativos)), the counters counting the findings by severity over the *)
(* rule findings and the cross-reference findings together; it lies in     *)
(* 0..100 and is 100 iff there are no findings.                            *)
(***************************************************************************)
C7_ScoreDoRelatorio ==
    (RelatorioDireto \/ RelatorioDoServico)
    => LET lista == AchadosDoRelatorio
       IN /\ retorno.nao_conformidades = lista
          /\ retorno.por_severidade =
                 [critico |-> Quantos(lista, "CRITICO"),
                  aviso |-> Quantos(lista, "AVISO"),
                  informativo |-> Quantos(lista, "INFORMATIVO")]
          /\ retorno.score_conformidade = Max(0, 100 - PenalidadeDe(lista))
          /\ retorno.score_conformidade \in 0..100
          /\ retorno.score_conformidade = 100 <=> lista = <<>>

\* a penalty above 100 scores 0
C7_Witness ==
    /\ RelatorioDireto
    /\ PenalidadeDe(chamada.nao_conformidades) > 100
    /\ retorno.score_conformidade = 0

(***************************************************************************)
(* C8.  The recommendation is decided by the score alone, with inclusive   *)
(* lower boundaries: >= 90 excellent, 70..89 good, 50..69 moderate, < 50   *)
(* urgent; a report of exactly one CRITICO finding scores 90 and is        *)
(* excellent.                                                              *)
(***************************************************************************)
C8_RecomendacaoPorScore ==
    (RelatorioDireto \/ RelatorioDoServico)
    => LET score == retorno.score_conformidade
           texto == retorno.recomendacao_geral
       IN /\ score \in 90..100
                 <=> texto = "Excelente conformidade. Manter monitoramento regular."
          /\ score \in 70..89
                 <=> texto = "Boa conformidade. Corrigir avisos identificados."
          /\ score \in 50..69
                 <=> texto = "Conformidade moderada. Priorizar correcao de itens criticos."
          /\ score < 50
                 <=> texto = "Conformidade baixa. ACAO URGENTE: Regularizar itens criticos imediatamente."
          /\ (Len(AchadosDoRelatorio) = 1
                 /\ AchadosDoRelatorio[1].severidade = "CRITICO")
                 => /\ score = 90
                    /\ texto = "Excelente conformidade. Manter monitoramento regular."

C8_Witness ==
    /\ RelatorioDireto
    /\ chamada.nao_conformidades = <<NaoConformidade("CRITICO", "DIRETA")>>
    /\ retorno.score_conformidade = 90
    /\ retorno.recomendacao_geral =
           "Excelente conformidade. Manter monitoramento regular."

(***************************************************************************)
(* C9.  auditar_sped returns, in table order, exactly one finding for each *)
(* rule of the selected table whose condition holds on the ledger summary, *)
(* with the rule's own severity and code; a rule's outcome depends on its  *)
(* own condition only.                                                     *)
(***************************************************************************)
\* the condition of a rule on a summary: the five conditions on the
\* summary's fields; the other rules have none
CondicaoDaRegra(codigo, dados) ==
    \/ codigo = "SPED-F001" /\ dados.tem_bloco_h = Some(FALSE)
    \/ codigo = "SPED-F002" /\ dados.ncms_invalidos # None
                            /\ dados.ncms_invalidos[1] > 0
    \/ codigo = "SPED-F003" /\ dados.divergencias_aliquota # None
                            /\ dados.divergencias_aliquota[1] > 0
    \/ codigo = "SPED-F004" /\ dados.cfops_inconsistentes # None
                            /\ dados.cfops_inconsistentes[1] > 0
    \/ codigo = "SPED-C002" /\ dados.creditos_suspeitos # None
                            /\ dados.creditos_suspeitos[1] > 0

AuditoriaDireta == chamada.op = "auditar_sped" /\ retorno # Pendente

RegraValidada == chamada.op = "_validar_regra" /\ retorno # Pendente

C9_TodasAsRegrasAplicaveis ==
    /\ AuditoriaDireta
       => LET regras == IF chamada.tipo = "SPED_FISCAL"
                        THEN REGRAS_SPED_FISCAL ELSE REGRAS_SPED_CONTRIBUICOES
              dados  == andamento.dados_sped
              Vale(regra) == CondicaoDaRegra(regra.codigo, dados)
              valem  == SelectSeq(regras, Vale)
          IN /\ Len(retorno.lista) = Len(valem)
             /\ \A i \in 1..Len(valem) :
                    /\ retorno.lista[i].regra = valem[i].codigo
                    /\ retorno.lista[i].severidade = valem[i].severidade
    /\ RegraValidada
       => IF CondicaoDaRegra(chamada.regra.codigo, chamada.dados)
          THEN retorno.achado =
                   Some(NaoConformidade(chamada.regra.severidade,
                                        chamada.regra.codigo))
          ELSE retorno.achado = None

\* four rules of the fiscal table fire on one summary
C9_Witness ==
    /\ AuditoriaDireta
    /\ chamada.tipo = "SPED_FISCAL"
    /\ Len(retorno.lista) = 4

(***************************************************************************)
(* C10.  cruzar_dados_fiscais emits CRUZ-001 (CRITICO) iff the e-CAC       *)
(* pendency flag is set and CRUZ-002 (AVISO) iff the NF-e count and the    *)
(* ledger's entry count differ by more than 5, each independently of the   *)
(* other, a missing counter counting as 0.                                 *)
(***************************************************************************)
Cruzamento == chamada.op = "cruzar_dados_fiscais" /\ retorno # Pendente

\* the arguments and the result of the cross-reference, in a direct call
\* and in the service
CruzArgs ==
    IF Cruzamento
    THEN [sped |-> chamada.dados_sped, externos |-> chamada.dados_externos,
          lista |-> retorno.lista]
    ELSE [sped |-> andamento.dados_sped, externos |-> andamento.dados_externos,
          lista |-> andamento.nao_conformidades_cruzamento]

OuZero(v) == IF v = None THEN 0 ELSE v[1]

C10_Cruzamentos ==
    (Cruzamento \/ RelatorioDoServico)
    => LET a         == CruzArgs
           pendencia == a.externos.pendencia_ecac = Some(TRUE)
           diferenca == OuZero(a.externos.total_nfe_recebidas)
                            - OuZero(a.sped.total_notas_entrada)
           diverge   == diferenca > 5 \/ diferenca < -5
       IN a.lista =
              (IF pendencia THEN <<[severidade |-> "CRITICO", regra |-> "CRUZ-001"]>>
               ELSE <<>>)
              \o (IF diverge THEN <<[severidade |-> "AVISO", regra |-> "CRUZ-002"]>>
                  ELSE <<>>)

\* a discrepancy of exactly 5, against a missing ledger counter, with a
\* pendency: only CRUZ-001 is emitted
C10_Witness ==
    /\ Cruzamento
    /\ chamada.dados_externos = [pendencia_ecac |-> Some(TRUE),
                                 total_nfe_recebidas |-> Some(5)]
    /\ chamada.dados_sped.total_notas_entrada = None
    /\ retorno.lista = <<[severidade |-> "CRITICO", regra |-> "CRUZ-001"]>>

FatorR == chamada.op = "calcular_fator_r" /\ retorno # Pendente

\* n more decimal places of rem / d appended to the integer acc
RECURSIVE MaisCasas(_, _, _, _)
MaisCasas(acc, rem, d, n) ==
    IF n = 0 THEN <<acc, rem>>
    ELSE MaisCasas(acc * 10 + (rem * 10) \div d, (rem * 10) % d, d, n - 1)

\* |folha| / receita in 1/10000, a half or more of 1/10000 rounded up
Razao4(folha, receita) ==
    LET c == MaisCasas(Abs(folha) \div receita, Abs(folha) % receita,
                       receita, 4)
    IN IF 2 * c[2] >= receita THEN c[1] + 1 ELSE c[1]

AnexoDoEnquadramento(e) == IF e = "ANEXO_III" THEN "anexo_iii" ELSE "anexo_v"

\* C18: for revenue_12m > 0, calcular_fator_r returns payroll_12m /
\* revenue_12m rounded half-up to 4 decimal places (ROUND_HALF_UP: a half
\* goes away from zero), classifies ANEXO_III iff that ratio is >= 0.28 and
\* ANEXO_V otherwise, and calcular_simples_nacional, given the returned
\* fator_r with anexo_iii or anexo_v, selects the annex of the classification.
C18_FatorRArredondadoEClassificado ==
    (FatorR /\ chamada.receita_bruta_12m > 0) =>
        LET f == chamada.folha_salarios_12m
            r == chamada.receita_bruta_12m
            m == Razao4(f, r)
        IN /\ retorno.status = "SUCESSO"
           /\ retorno.fator_r = (IF f < 0 THEN -m ELSE m)
           /\ retorno.enquadramento \in {"ANEXO_III", "ANEXO_V"}
           /\ retorno.enquadramento = "ANEXO_III" <=> retorno.fator_r >= 2800
           /\ retorno.beneficia_anexo_iii <=> retorno.fator_r >= 2800
           /\ \A anexo \in {"anexo_iii", "anexo_v"} :
                LET s == CalcularSimplesNacional(r, 1050, anexo,
                                                 Some(retorno.fator_r))
                IN /\ s.status = "SUCESSO" <=> r <= 4800000
                   /\ s.status = "SUCESSO" =>
                        s.anexo = AnexoDoEnquadramento(retorno.enquadramento)

\* a payroll half way between 0.2799 and 0.2800 of the revenue is rounded up
\* to 0.2800 and classified ANEXO_III
C18_Witness ==
    /\ FatorR
    /\ chamada.folha_salarios_12m = 139975
    /\ chamada.receita_bruta_12m = 500000
    /\ retorno.fator_r = 2800
    /\ retorno.enquadramento = "ANEXO_III"

\* C19: calcular_fator_r with revenue_12m zero or negative divides nothing
\* and returns a result with status "ERRO" and an error message, not an
\* exception.
C19_ReceitaNaoPositivaErro ==
    (FatorR /\ chamada.receita_bruta_12m <= 0) =>
        /\ DOMAIN retorno = {"status", "mensagem", "fator_r"}
        /\ retorno.status = "ERRO"
        /\ retorno.mensagem = "Receita Bruta deve ser maior que zero"
        /\ retorno.fator_r = 0

C19_Witness ==
    /\ FatorR
    /\ chamada.receita_bruta_12m = 0
    /\ chamada.folha_salarios_12m = 139975
    /\ retorno.status = "ERRO"

SimulacaoFeita ==
    chamada.op = "simular_economia_fator_r" /\ retorno # Pendente

\* C20 as claimed: simular_economia_fator_r never raises for numeric inputs;
\* with a zero revenue_12m the Fator R error is in the returned value.
C20_Original ==
    SimulacaoFeita =>
        /\ retorno.status \in {"SUCESSO", "ERRO"}
        /\ chamada.receita_bruta_12m = 0 => retorno.status = "ERRO"

\* a zero revenue_12m: the simulation ends with the KeyError of the lookup
\* of fator_r_percentual in the Fator R error result
C20_Witness ==
    /\ SimulacaoFeita
    /\ chamada.receita_bruta_12m = 0
    /\ retorno = [status |-> "KeyError", chave |-> "fator_r_percentual"]

CnpjValidado == chamada.op = "_validar_cnpj" /\ retorno # Pendente

\* the weighted sum of the first n digits of c, the weights counted down
\* from w to 2 and then again from 9
PesoNaPosicao(i, w) == IF w - (i - 1) >= 2 THEN w - (i - 1) ELSE w - (i - 1) + 8

RECURSIVE SomaAte(_, _, _)
SomaAte(c, n, w) ==
    IF n = 0 THEN 0
    ELSE SomaAte(c, n - 1, w) + IntDe(c[n]) * PesoNaPosicao(n, w)

Verificador(soma) == IF soma % 11 < 2 THEN 0 ELSE 11 - (soma % 11)

\* the check digits of a 14-digit string are right and its digits are not
\* all the same
DigitosConferem(c) ==
    /\ \E i \in 2..14 : c[i] # c[1]
    /\ IntDe(c[13]) = Verificador(SomaAte(c, 12, 5))
    /\ IntDe(c[14]) = Verificador(SomaAte(c, 13, 6))

\* C13: _validar_cnpj returns true for a 14-digit input iff the digits are
\* not all identical and both check digits, computed by weighted sum mod 11
\* with weights [5,4,3,2,9,8,7,6,5,4,3,2] for digit 13 and
\* [6,5,4,3,2,9,8,7,6,5,4,3,2] for digit 14 (0 if the remainder is < 2, else
\* 11 - remainder), equal the last two input digits; an input that does not
\* have exactly 14 digits is rejected.
C13_ValidarCnpj ==
    /\ \A i \in 1..12 : Peso1[i] = PesoNaPosicao(i, 5)
    /\ \A i \in 1..13 : Peso2[i] = PesoNaPosicao(i, 6)
    /\ CnpjValidado =>
        LET c == SoDigitos(chamada.cnpj)
        IN /\ Len(c) # 14 => ~retorno.valido
           /\ Len(c) = 14 => (retorno.valido <=> DigitosConferem(c))

\* the CNPJ 11.222.333/0001-81, written with its punctuation, is accepted
C13_Witness ==
    /\ CnpjValidado
    /\ chamada.cnpj = <<"1", "1", ".", "2", "2", "2", ".", "3", "3", "3", "/",
                    "0", "0", "0", "1", "-", "8", "1">>
    /\ Len(SoDigitos(chamada.cnpj)) = 14
    /\ retorno.valido

\* the positions at which c, of 14 digits, differs from a string with right
\* check digits by that one digit
PosicoesDeTroca(c) ==
    {i \in 1..14 : \E k \in 1..Len(Digitos) :
        /\ Digitos[k] # c[i]
        /\ DigitosConferem(Trocar(c, i, Digitos[k]))}

EntradaDe14 ==
    /\ CnpjValidado
    /\ Len(chamada.cnpj) = 14
    /\ SoDigitos(chamada.cnpj) = chamada.cnpj

\* C14 as claimed: a valid CNPJ is accepted, and any valid CNPJ with one of
\* its 14 digits replaced by a different digit is rejected.
C14_Original ==
    EntradaDe14 =>
        /\ DigitosConferem(chamada.cnpj) => retorno.valido
        /\ PosicoesDeTroca(chamada.cnpj) # {} => ~retorno.valido

\* C14: a valid CNPJ is accepted; 11.222.333/0001-81 with any one digit
\* replaced is rejected; a valid CNPJ with one digit replaced is accepted
\* only if the replaced digit is the 1st, the 5th or the 9th (the positions
\* whose two weights add up to 11) and both check digits are 0, and so every
\* replacement of one digit in a valid CNPJ whose check digits are not both
\* 0 is rejected.
C14_UmDigitoTrocado ==
    EntradaDe14 =>
        LET c == chamada.cnpj
        IN /\ DigitosConferem(c) => retorno.valido
           /\ (c # CNPJ_EXEMPLO /\ c \in ComUmDigitoTrocado(CNPJ_EXEMPLO))
                => ~retorno.valido
           /\ (PosicoesDeTroca(c) # {} /\ retorno.valido) =>
                /\ PosicoesDeTroca(c) \subseteq {1, 5, 9}
                /\ c[13] = "0" /\ c[14] = "0"
           /\ (PosicoesDeTroca(c) # {} /\ ~(c[13] = "0" /\ c[14] = "0"))
                => ~retorno.valido

\* 11.222.333/0001-81 with its 5th digit replaced is rejected
C14_Witness ==
    /\ EntradaDe14
    /\ chamada.cnpj = Trocar(CNPJ_EXEMPLO, 5, "7")
    /\ 5 \in PosicoesDeTroca(chamada.cnpj)
    /\ ~retorno.valido


Classificado == chamada.op = "_classificar_documento" /\ retorno # Pendente

SemTipoEsperado ==
    chamada.tipo_esperado = None \/ chamada.tipo_esperado = Some("")

\* the patterns of the n-th type that match the text, case ignored
PadroesCasados(n, texto) ==
    {k \in 1..Len(PADROES_CLASSIFICACAO[n].padroes) :
        Search(PADROES_CLASSIFICACAO[n].padroes[k], texto, TRUE).ok}

\* min(100, 25 x number of matching patterns), for each type of the table
Pontos(texto) ==
    [n \in 1..Len(PADROES_CLASSIFICACAO) |->
        LET p == 25 * Cardinality(PadroesCasados(n, texto))
        IN  IF p > 100 THEN 100 ELSE p]

\* the classification the scores determine: the first type of the table
\* among those with the highest score, or the unknown type when all are 0
Vencedor(pontos) ==
    IF \A n \in DOMAIN pontos : pontos[n] = 0
    THEN [tipo |-> DESCONHECIDO, score |-> 0]
    ELSE LET n == CHOOSE v \in DOMAIN pontos :
                      /\ \A m \in DOMAIN pontos : pontos[m] <= pontos[v]
                      /\ \A m \in 1..(v - 1) : pontos[m] # pontos[v]
         IN  [tipo |-> PADROES_CLASSIFICACAO[n].tipo, score |-> pontos[n]]

(***************************************************************************)
(* C11.  Without an expected type, _classificar_documento scores each type *)
(* min(100, 25 x the number of its patterns that match the text, case      *)
(* ignored) and returns the type with the highest nonzero score and that   *)
(* score; among types that tie for the highest score the first of the      *)
(* pattern table wins; when every type scores 0 it returns the unknown     *)
(* type with score 0.  The result is a function of the text alone.         *)
(***************************************************************************)
C11_ClassificacaoPorPontos ==
    (Classificado /\ SemTipoEsperado) =>
        retorno.classificacao = Vencedor(Pontos(chamada.texto))

\* two types tie for the highest score and the first of the table is returned
C11_Witness ==
    /\ Classificado
    /\ chamada.tipo_esperado = None
    /\ LET pontos == Pontos(chamada.texto)
       IN  /\ pontos[5] = 25 /\ pontos[6] = 25
           /\ \A n \in DOMAIN pontos : pontos[n] <= 25
    /\ retorno.classificacao = [tipo |-> DAS, score |-> 25]

(***************************************************************************)
(* C12.  With an expected type supplied, _classificar_documento returns    *)
(* that type with score 100 whatever the text contains: no pattern is      *)
(* consulted.                                                              *)
(***************************************************************************)
C12_TipoEsperadoPrevalece ==
    (Classificado /\ ~SemTipoEsperado) =>
        retorno.classificacao =
            [tipo |-> chamada.tipo_esperado[1], score |-> 100]

\* the text points to DAS with three patterns, the caller expects a boleto
C12_Witness ==
    /\ Classificado
    /\ chamada.tipo_esperado = Some(BOLETO)
    /\ Vencedor(Pontos(chamada.texto)) = [tipo |-> DAS, score |-> 75]
    /\ retorno.classificacao = [tipo |-> BOLETO, score |-> 100]


ProcessadoOcr == chamada.op = "ocr.processar_documento" /\ retorno # Pendente

\* the classification score of the processed text
ScoreClassificacao ==
    IF SemTipoEsperado THEN Vencedor(Pontos(chamada.texto)).score ELSE 100

\* how many of cnpj, valor and data were found
CamposEncontrados ==
    Cardinality({c \in {"cnpj", "valor", "data"} :
                    retorno.dados_extraidos[c] # None})

\* how many validations passed, and how many there are
ValidacoesOk ==
    Cardinality({v \in DOMAIN retorno.validacoes : retorno.validacoes[v]})

TotalValidacoes == Cardinality(DOMAIN retorno.validacoes)

(***************************************************************************)
(* C15.  The confidence of processar_documento is                          *)
(*   0.4 x classification score + 0.3 x (fields found of cnpj, valor,     *)
(*   data / 3) x 100 + 0.3 x (validations passed / validations) x 100     *)
(* rounded to two places, and lies in [0, 100]; for the empty text with no *)
(* expected type it is exactly 0, and processar_documento returns (raises  *)
(* nothing) for every text.  score_confianca is in hundredths; the         *)
(* rounding is stated over the common denominator 30 x validations.        *)
(***************************************************************************)
C15_ScoreConfianca ==
    ProcessadoOcr =>
        /\ retorno.status = "OK"
        /\ retorno.score_confianca \in 0..10000
        /\ LET den   == 30 * TotalValidacoes
               exato == 100 * (12 * ScoreClassificacao * TotalValidacoes
                               + 300 * CamposEncontrados * TotalValidacoes
                               + 900 * ValidacoesOk)
               erro  == retorno.score_confianca * den - exato
           IN  2 * erro <= den /\ 2 * erro >= 0 - den
        /\ (chamada.texto = <<>> /\ SemTipoEsperado) =>
               retorno.score_confianca = 0

\* a text classified by its patterns, with the three fields found and only
\* some of the validations passed
C15_Witness ==
    /\ ProcessadoOcr
    /\ chamada.tipo_esperado = None
    /\ ScoreClassificacao = 75
    /\ CamposEncontrados = 3
    /\ ValidacoesOk = 1
    /\ retorno.score_confianca = 7000


\* a call of processar_documento for an existing document that has returned
ProcessouDocumento ==
    /\ chamada.op = "processar_documento"
    /\ retorno # Pendente
    /\ retorno.status = "OK"

\* the bytes it parsed are malformed or unreadable
Ilegivel == ConteudoLido # None /\ ~ConteudoLido[1].legivel

DocumentoDaChamada == documentos[chamada.documento_id]

(***************************************************************************)
(* C16 as claimed.  For malformed or unreadable bytes the structured       *)
(* parser raises PDFParsingError, and processar_documento ends with the    *)
(* document in status "erro" (never "processado"), the message of the      *)
(* parsing error in erro_processamento, and sucesso = false in the result. *)
(* The code does not do this: _parse_pdf catches the error of the parser   *)
(* in each of its attempts and returns (OUTRO, {}).                        *)
(***************************************************************************)
C16_Original ==
    ProcessouDocumento /\ Ilegivel =>
        /\ DctfwebParseBytes(ConteudoLido[1]).status = "PDFParsingError"
        /\ DasParseBytes(ConteudoLido[1]).status = "PDFParsingError"
        /\ DocumentoDaChamada.status = ERRO
        /\ DocumentoDaChamada.status # PROCESSADO
        /\ DocumentoDaChamada.erro_processamento
               \in {Some(DctfwebParseBytes(ConteudoLido[1]).mensagem),
                    Some(DasParseBytes(ConteudoLido[1]).mensagem)}
        /\ retorno.sucesso = FALSE

\* unreadable bytes were processed: the parser raised, and the document is
\* "processado" as type "outro" with no data and no error message, and the
\* result has sucesso = true
C16_Witness ==
    /\ ProcessouDocumento /\ Ilegivel
    /\ DctfwebParseBytes(ConteudoLido[1]).status = "PDFParsingError"
    /\ DocumentoDaChamada.status = PROCESSADO
    /\ DocumentoDaChamada.tipo = OUTRO
    /\ DOMAIN DocumentoDaChamada.dados_extraidos[1] = {}
    /\ DocumentoDaChamada.erro_processamento = None
    /\ retorno.sucesso = TRUE


\* the ledger file of a SPED audit is malformed (empty)
LedgerMalformado ==
    /\ chamada.op \in {"auditar_sped", "executar_auditoria_sped"}
    /\ chamada.arquivo_path = ARQUIVO_VAZIO

\* the summary with zero for each missing counter
ComZeros(dados) ==
    [k \in DOMAIN dados |->
        IF k \in {"ncms_invalidos", "cfops_inconsistentes",
                  "divergencias_aliquota", "creditos_suspeitos"}
           /\ dados[k] = None
        THEN Some(0) ELSE dados[k]]

AuditoriaDoServico ==
    chamada.op = "executar_auditoria_sped" /\ andamento # Parado

(***************************************************************************)
(* C17 as claimed.  A malformed (empty) ledger file is rejected with a     *)
(* parsing error before any rule is evaluated: auditar_sped returns no     *)
(* list of findings for it, and the service computes no findings, stores   *)
(* no audit and returns no conformity report.  For a well-formed ledger    *)
(* the audit returns its findings, and _validar_regra returns for every    *)
(* summary, a missing counter counting as zero (no finding of its rule).   *)
(* The code does not do the first: auditar_sped never reads the file, its  *)
(* summary comes from _simular_parser_sped whatever the path holds.        *)
(***************************************************************************)
C17_Original ==
    /\ AuditoriaDireta /\ LedgerMalformado => retorno.status # "OK"
    /\ AuditoriaDoServico => ~LedgerMalformado
    /\ LedgerMalformado => auditorias = {}
    /\ AuditoriaDireta /\ ~LedgerMalformado => retorno.status = "OK"
    /\ RegraValidada =>
          /\ retorno.status = "OK"
          /\ retorno.achado = ValidarRegra(chamada.regra,
                                           ComZeros(chamada.dados))

\* the service audited an empty ledger file: findings were computed from
\* the simulated summary, the audit was stored and a report returned
C17_Witness ==
    /\ chamada.op = "executar_auditoria_sped"
    /\ LedgerMalformado
    /\ retorno # Pendente
    /\ andamento.nao_conformidades # <<>>
    /\ auditorias # {}


\* the simulation returned a result
SimulacaoReportada == SimulacaoFeita /\ retorno.status = "SUCESSO"

\* calcular_simples_nacional for the revenues of the simulation
DasDoAnexo(anexo) ==
    CalcularSimplesNacional(chamada.receita_bruta_12m, chamada.receita_mensal,
                            anexo, None)

(***************************************************************************)
(* C21.  A result of simular_economia_fator_r has monthly savings equal to *)
(* the tax due under annex V minus the tax due under annex III, both from  *)
(* calcular_simples_nacional for the same revenue_12m and monthly revenue  *)
(* (and so in the same bracket), annual savings of 12 times the monthly,   *)
(* a required payroll of 0.28 x revenue_12m (28 centavos per unit) and a   *)
(* required increase of max(0, required payroll - current payroll).        *)
(***************************************************************************)
C21_EconomiaFatorR ==
    SimulacaoReportada =>
        /\ retorno.economia_potencial.mensal =
               DasDoAnexo("anexo_v").valor_das
                   - DasDoAnexo("anexo_iii").valor_das
        /\ retorno.cenario_otimizado.das_mensal =
               DasDoAnexo("anexo_iii").valor_das
        /\ DasDoAnexo("anexo_v").status = "SUCESSO"
               => /\ DasDoAnexo("anexo_iii").status = "SUCESSO"
                  /\ DasDoAnexo("anexo_v").indice_faixa =
                         DasDoAnexo("anexo_iii").indice_faixa
        /\ retorno.economia_potencial.anual =
               12 * retorno.economia_potencial.mensal
        /\ retorno.cenario_otimizado.folha_necessaria_12m.centavos =
               28 * chamada.receita_bruta_12m
        /\ retorno.cenario_otimizado.aumento_folha_necessario.centavos =
               Max(0, 28 * chamada.receita_bruta_12m
                          - 100 * chamada.folha_atual_12m)

\* a simulation with a tax under both annexes, a saving, and a payroll that
\* has to rise
C21_Witness ==
    /\ SimulacaoReportada
    /\ DasDoAnexo("anexo_v").status = "SUCESSO"
    /\ DasDoAnexo("anexo_iii").valor_das > 0
    /\ retorno.economia_potencial.mensal > 0
    /\ retorno.economia_potencial.anual = 12 * retorno.economia_potencial.mensal
    /\ retorno.cenario_otimizado.aumento_folha_necessario.centavos > 0


\* trecho occurs in texto as a run of consecutive characters
Contem(texto, trecho) ==
    \E i \in 1..(Len(texto) - Len(trecho) + 1) :
        \A k \in 1..Len(trecho) : texto[i + k - 1] = trecho[k]

TRECHO_CNPJ ==
    <<"C", "N", "P", "J", ":", " ", "1", "2", ".", "3", "4", "5", ".", "6", "7", "8", "/", "0", "0", "0", "1", "-", "0", "0">>
TRECHO_PERIODO ==
    <<"P", "e", "r", "i'", "o", "d", "o", " ", "d", "e", " ", "A", "p", "u", "r", "a", "c,", "a~", "o", ":", " ", "1", "2", "/", "2", "0", "2", "5">>
TRECHO_VALOR ==
    <<"V", "a", "l", "o", "r", " ", "T", "o", "t", "a", "l", ":", " ", "R", "$", " ", "8", "5", "0", ",", "0", "0">>
TRECHO_DAS == <<"D", "A", "S">>
TITULO_DAS ==
    <<"d", "o", "c", "u", "m", "e", "n", "t", "o", " ", "d", "e", " ", "a", "r", "r", "e", "c", "a", "d", "a", "c,", "a~", "o", " ", "d", "o", " ", "s", "i", "m", "p", "l", "e", "s", " ", "n", "a", "c", "i", "o", "n", "a", "l">>

\* the text holds the four strings of the DAS scenario
TextoDoCenarioDas(texto) ==
    /\ Contem(texto, TRECHO_CNPJ)
    /\ Contem(texto, TRECHO_PERIODO)
    /\ Contem(texto, TRECHO_VALOR)
    /\ Contem(texto, TRECHO_DAS)

\* "das", in either case, stands in the text as a word of its own
DasComoPalavra(texto) ==
    \E i \in 1..(Len(texto) - 2) :
        /\ \A k \in 1..3 : LowerChar(texto[i + k - 1]) = LowerChar(TRECHO_DAS[k])
        /\ EhFronteira(texto, i)
        /\ EhFronteira(texto, i + 3)

\* the position of a type in the pattern table
PosicaoDoTipo(tipo) ==
    CHOOSE n \in 1..Len(PADROES_CLASSIFICACAO) :
        PADROES_CLASSIFICACAO[n].tipo = tipo

ClassificouCenarioDas ==
    /\ Classificado
    /\ SemTipoEsperado
    /\ TextoDoCenarioDas(chamada.texto)

(***************************************************************************)
(* C22 as stated.  A text that holds "CNPJ: 12.345.678/0001-00", "Periodo  *)
(* de Apuracao: 12/2025", "Valor Total: R$ 850,00" and the string "DAS" is *)
(* classified by the patterns as DAS with a score of at least 75.          *)
(***************************************************************************)
C22_Original ==
    ClassificouCenarioDas =>
        /\ retorno.classificacao.tipo = DAS
        /\ retorno.classificacao.score >= 75

(***************************************************************************)
(* C22.  A text that holds the four strings is classified by the patterns  *)
(* as DAS with score 75, all three DAS patterns matching, when it also     *)
(* holds the heading "Documento de Arrecadacao do Simples Nacional" (case  *)
(* ignored), DAS stands in it as a word of its own and no type before DAS  *)
(* in the table has three matching patterns, as in the simulated DAS       *)
(* text.  The four strings do not suffice: a text without the word         *)
(* "simples" is never classified as DAS with a score of 50 or more.        *)
(***************************************************************************)
C22_DasComTitulo ==
    ClassificouCenarioDas =>
        LET texto  == chamada.texto
            pontos == Pontos(texto)
        IN  /\ ( /\ Contem(Lower(texto), TITULO_DAS)
                 /\ DasComoPalavra(texto)
                 /\ \A n \in 1..(PosicaoDoTipo(DAS) - 1) : pontos[n] < 75 )
               => retorno.classificacao = Classificacao(DAS, 75)
            /\ ~Contem(Lower(texto), <<"s", "i", "m", "p", "l", "e", "s">>)
               => ~( /\ retorno.classificacao.tipo = DAS
                     /\ retorno.classificacao.score >= 50 )

\* the four strings under the full heading are classified DAS with score 75,
\* and the four strings under the bare word DAS were classified too
C22_Witness ==
    /\ ClassificouCenarioDas
    /\ Contem(Lower(chamada.texto), TITULO_DAS)
    /\ DasComoPalavra(chamada.texto)
    /\ chamada.texto # TEXTO_SIMULADO_DAS
    /\ retorno.classificacao = Classificacao(DAS, 75)


\* the characters of texto at i follow forma: a digit where forma has "9",
\* the character of forma elsewhere
TemForma(texto, i, forma) ==
    /\ i >= 1
    /\ i + Len(forma) - 1 <= Len(texto)
    /\ \A k \in 1..Len(forma) :
          IF forma[k] = "9" THEN texto[i + k - 1] \in Algarismos
          ELSE texto[i + k - 1] = forma[k]

\* 99.999.999/9999-99
FORMA_CNPJ ==
    <<"9", "9", ".", "9", "9", "9", ".", "9", "9", "9", "/", "9", "9", "9", "9", "-", "9", "9">>

\* 99/9999
FORMA_PERIODO == <<"9", "9", "/", "9", "9", "9", "9">>

\* amounts in the Brazilian format: dots between the thousands, a comma
\* before the centavos
FORMAS_VALOR ==
    {<<"9", ",", "9", "9">>,
     <<"9", "9", ",", "9", "9">>,
     <<"9", "9", "9", ",", "9", "9">>,
     <<"9", ".", "9", "9", "9", ",", "9", "9">>,
     <<"9", "9", ".", "9", "9", "9", ",", "9", "9">>,
     <<"9", "9", "9", ".", "9", "9", "9", ",", "9", "9">>}

Posicoes(texto, forma) == {i \in 1..Len(texto) : TemForma(texto, i, forma)}

Menor(S) == CHOOSE i \in S : \A j \in S : i <= j

\* the first formatted CNPJ of the text
PrimeiroCnpj(texto) ==
    SubSeq(texto, Menor(Posicoes(texto, FORMA_CNPJ)),
           Menor(Posicoes(texto, FORMA_CNPJ)) + Len(FORMA_CNPJ) - 1)

\* the places where "R$ " and an amount in the Brazilian format stand, with
\* the length of the amount
ValoresEmReais(texto) ==
    {par \in Posicoes(texto, <<"R", "$", " ">>) \X {Len(f) : f \in FORMAS_VALOR} :
        \E f \in FORMAS_VALOR :
            Len(f) = par[2] /\ TemForma(texto, par[1] + 3, f)}

\* the text has one amount after "R$" or "BRL", and it is in the Brazilian
\* format
UmValorEmReais(texto, texto_lower) ==
    /\ Cardinality(Posicoes(texto_lower, <<"r", "$">>)) = 1
    /\ Posicoes(texto_lower, <<"b", "r", "l">>) = {}
    /\ Cardinality(ValoresEmReais(texto)) = 1

\* the places of "periodo", with or without the accent, in a lowered text
InicioDePeriodo(texto_lower) ==
    Posicoes(texto_lower, <<"p", "e", "r", "i", "o", "d", "o">>)
        \cup Posicoes(texto_lower, <<"p", "e", "r", "i'", "o", "d", "o">>)

\* the places of 99/9999 that follow "periodo" at i on the same line
PeriodosDepois(texto_lower, i, formas) ==
    {j \in formas :
        /\ j >= i + 7
        /\ \A k \in (i + 7)..(j - 1) : texto_lower[k] # "\n"}

\* the first "periodo" that has a 99/9999 after it on its line, and the
\* first 99/9999 after it: None when there is none
PrimeiroPeriodoEm(texto_lower, inicios, formas) ==
    LET com == {i \in inicios : PeriodosDepois(texto_lower, i, formas) # {}}
    IN  IF com = {} THEN None
        ELSE LET j == Menor(PeriodosDepois(texto_lower, Menor(com), formas))
             IN  Some(SubSeq(texto_lower, j, j + Len(FORMA_PERIODO) - 1))

PrimeiroPeriodo(texto_lower) ==
    PrimeiroPeriodoEm(texto_lower, InicioDePeriodo(texto_lower),
                      Posicoes(texto_lower, FORMA_PERIODO))

\* the amount in centavos of a float with two decimal places, None otherwise
Centavos(valor_float) ==
    IF valor_float # None /\ valor_float[1].casas = 2
    THEN Some(valor_float[1].digitos)
    ELSE None

ExtraiuDeDas == ProcessadoOcr /\ retorno.tipo = DAS

(***************************************************************************)
(* C23.  For a text classified as DAS, _extrair_dados returns: cnpj as the *)
(* 14 digits of the first formatted CNPJ of the text and cnpj_formatado as *)
(* that CNPJ as written; valor_float as the number the amount after "R$"   *)
(* stands for, its thousands dots removed and its comma the decimal point; *)
(* periodo_apuracao as the MM/YYYY string that follows "Periodo" on its    *)
(* line.  For the scenario text these are "12345678000100", 850.0 and      *)
(* "12/2025".                                                              *)
(***************************************************************************)
C23_DadosDoDas ==
    ExtraiuDeDas =>
        LET texto == chamada.texto
            dados == retorno.dados_extraidos
        IN  /\ Posicoes(texto, FORMA_CNPJ) # {} =>
                  /\ dados.cnpj_formatado = Some(PrimeiroCnpj(texto))
                  /\ dados.cnpj # None
                  /\ Len(dados.cnpj[1]) = 14
                  /\ \A k \in 1..14 : dados.cnpj[1][k] \in Algarismos
                  /\ dados.cnpj[1] =
                        SelectSeq(PrimeiroCnpj(texto),
                                  LAMBDA c : c \notin {".", "/", "-"})
            /\ UmValorEmReais(texto, Lower(texto)) =>
                  LET par   == CHOOSE p \in ValoresEmReais(texto) : TRUE
                      valor == SubSeq(texto, par[1] + 3, par[1] + 2 + par[2])
                  IN  /\ dados.valor = Some(valor)
                      /\ Centavos(dados.valor_float) =
                            Some(SelectSeq(valor,
                                           LAMBDA c : c \notin {".", ","}))
            /\ dados.periodo_apuracao = PrimeiroPeriodo(Lower(texto))
            /\ TextoDoCenarioDas(texto) =>
                  /\ dados.cnpj = Some(<<"1", "2", "3", "4", "5", "6", "7", "8", "0", "0", "0", "1", "0", "0">>)
                  /\ Centavos(dados.valor_float) = Some(<<"8", "5", "0", "0", "0">>)
                  /\ dados.periodo_apuracao = Some(<<"1", "2", "/", "2", "0", "2", "5">>)

\* the scenario text was classified as DAS by its patterns and the three
\* fields were extracted
C23_Witness ==
    /\ ExtraiuDeDas
    /\ chamada.tipo_esperado = None
    /\ TextoDoCenarioDas(chamada.texto)
    /\ retorno.dados_extraidos.cnpj_formatado = Some(SubSeq(TRECHO_CNPJ, 7, 24))
    /\ Centavos(retorno.dados_extraidos.valor_float) = Some(<<"8", "5", "0", "0", "0">>)
    /\ retorno.dados_extraidos.periodo_apuracao = Some(<<"1", "2", "/", "2", "0", "2", "5">>)

\* an amount with a thousands dot was extracted from a DAS
C23_WitnessMilhar ==
    /\ ExtraiuDeDas
    /\ Contem(chamada.texto, CORPO_DAS_MILHAR)
    /\ Centavos(retorno.dados_extraidos.valor_float) = Some(<<"1", "2", "3", "4", "5", "6", "7">>)


OcrPersistido ==
    chamada.op = "ocr_service.processar_documento" /\ retorno # Pendente

(***************************************************************************)
(* C24.  OCRService.processar_documento inserts one document into          *)
(* db.ocr_documentos, with the confidence the engine computed; its status  *)
(* is "processado" if and only if that confidence is at least 50 and       *)
(* "revisao_necessaria" if and only if it is below 50, and the answer      *)
(* carries the same status.  A confidence of exactly 50 is accepted.       *)
(***************************************************************************)
C24_StatusPorConfianca ==
    OcrPersistido =>
        /\ Cardinality(ocr_documentos) = 1
        /\ \A documento \in ocr_documentos :
              /\ documento.id = retorno.resultado.id
              /\ documento.score_confianca = retorno.resultado.score_confianca
              /\ documento.score_confianca =
                    ProcessarDocumentoOcr(chamada.texto,
                        chamada.tipo_esperado).score_confianca
              /\ documento.status = retorno.resultado.status
              /\ documento.status \in {"processado", "revisao_necessaria"}
              /\ documento.status = "processado"
                    <=> documento.score_confianca >= 50 * 100
              /\ documento.status = "revisao_necessaria"
                    <=> documento.score_confianca < 50 * 100

\* a document whose confidence is exactly 50 was stored as "processado"
C24_Witness ==
    /\ OcrPersistido
    /\ \E documento \in ocr_documentos :
          /\ documento.score_confianca = 50 * 100
          /\ documento.status = "processado"

\* a document whose confidence is just below 50 was stored for review
C24_WitnessRevisao ==
    /\ OcrPersistido
    /\ \E documento \in ocr_documentos :
          /\ documento.score_confianca < 50 * 100
          /\ documento.score_confianca >= 40 * 100
          /\ documento.status = "revisao_necessaria"


ParseDctfweb == chamada.op = "dctfweb.parse_bytes" /\ retorno # Pendente

ParseDas == chamada.op = "das.parse_bytes" /\ retorno # Pendente

\* the fields a parser counts, as the parsed data and the text show them:
\* the CNPJ, the period with its month and year, the amount, the due date,
\* and the fields of the one parser
CamposExtraidos(data, valor_total, proprios) ==
    Quantas(<< data.cnpj # <<>>,
               data.mes # None /\ data.ano # None,
               Achou(valor_total),
               data.data_vencimento # None >>
            \o [i \in 1..Len(proprios) |-> data[proprios[i]] # None])

\* the confidence is 100 x campos / total, and lies between 0 and 100
ConfiancaDe(data, campos, total) ==
    /\ campos \in 0..total
    /\ data.extraction_confidence.den = total
    /\ data.extraction_confidence.num = 100 * campos
    /\ data.extraction_confidence.num >= 0
    /\ data.extraction_confidence.num <= 100 * data.extraction_confidence.den

(***************************************************************************)
(* C25.  Each parser returns, for every PDF it can read, data whose        *)
(* extraction_confidence is 100 x (fields extracted / fields expected),    *)
(* with 6 expected fields for DCTFWeb (CNPJ, period, amount, due date,     *)
(* receipt number, company name) and 5 for DAS (CNPJ, period, amount, due  *)
(* date, digitable line); the fields extracted never exceed the expected   *)
(* ones, so the confidence lies in [0, 100]; a missing field lowers it and *)
(* raises nothing.                                                         *)
(***************************************************************************)
C25_ConfiancaDaExtracao ==
    /\ (ParseDctfweb /\ chamada.pdf_bytes.legivel) =>
          /\ retorno.status = "OK"
          /\ ConfiancaDe(retorno.data,
                 CamposExtraidos(retorno.data,
                     Achados(chamada.pdf_bytes.texto,
                             DCTFWEB_PATTERNS).valor_total,
                     <<"numero_recibo", "razao_social">>),
                 6)
    /\ (ParseDas /\ chamada.pdf_bytes.legivel) =>
          /\ retorno.status = "OK"
          /\ ConfiancaDe(retorno.data,
                 CamposExtraidos(retorno.data,
                     Achados(chamada.pdf_bytes.texto,
                             DAS_PATTERNS).valor_total,
                     <<"linha_digitavel">>),
                 5)

\* a DCTFWeb receipt without some of its fields: a confidence strictly
\* between 0 and 100
C25_Witness ==
    /\ ParseDctfweb
    /\ retorno.status = "OK"
    /\ retorno.data.extraction_confidence.num > 0
    /\ retorno.data.extraction_confidence.num < 600
    /\ retorno.data.mes = None

\* a DAS with its five fields: confidence 100
C25_WitnessDas ==
    /\ ParseDas
    /\ retorno.status = "OK"
    /\ retorno.data.extraction_confidence = [num |-> 500, den |-> 5]


\* the ceilings of the brackets of an annex rise strictly, up to the limit of
\* the regime
TetosCrescentes(faixas) ==
    /\ Len(faixas) >= 1
    /\ \A i \in 1..(Len(faixas) - 1) : faixas[i].limite < faixas[i + 1].limite
    /\ faixas[Len(faixas)].limite = 4800000

(***************************************************************************)
(* C26.  In each of the annexes I to V the ceilings of the brackets rise   *)
(* strictly and the last one is 4,800,000; so whenever a tax is computed   *)
(* (revenue_12m <= 4,800,000) the scan itself finds the bracket: the       *)
(* revenue is at most the ceiling of the bracket used and above the        *)
(* ceiling of every bracket before it, and the "use the last bracket"      *)
(* fallback, which would pick a bracket whose ceiling is below the         *)
(* revenue, is not reached.                                                *)
(***************************************************************************)
C26_FaixaSempreEncontrada ==
    Computado =>
        LET faixas == TABELA_SIMPLES[retorno.anexo]
        IN  /\ \A anexo \in {"anexo_i", "anexo_ii", "anexo_iii", "anexo_iv",
                             "anexo_v"} :
                  TetosCrescentes(TABELA_SIMPLES[anexo])
            /\ retorno.receita_bruta_12m <= 4800000
            /\ retorno.indice_faixa \in 1..Len(faixas)
            /\ retorno.faixa = faixas[retorno.indice_faixa]
            /\ retorno.receita_bruta_12m <= retorno.faixa.limite
            /\ \A j \in 1..(retorno.indice_faixa - 1) :
                  retorno.receita_bruta_12m > faixas[j].limite

\* a revenue of exactly 4,800,000 is taxed in the last bracket, found by the
\* scan
C26_Witness ==
    /\ Computado
    /\ retorno.receita_bruta_12m = 4800000
    /\ retorno.anexo = "anexo_iv"
    /\ retorno.indice_faixa = 6
    /\ retorno.faixa.limite = 4800000


\* executar_auditoria_sped has audited the ledger and parsed it for the
\* cross-reference and the report
AuditouNoServico ==
    /\ chamada.op = "executar_auditoria_sped"
    /\ andamento.pc \in {"coletar", "fim"}

(***************************************************************************)
(* C27 as stated.  Within one run of executar_auditoria_sped the ledger is *)
(* parsed once: the rule findings are those the rule table gives on the    *)
(* ledger summary that is used for the cross-reference and the report.     *)
(***************************************************************************)
C27_Original ==
    AuditouNoServico =>
        andamento.nao_conformidades =
            AuditarSped(andamento.tipo_auditoria, andamento.dados_sped)

\* a run whose rule findings are not those of the summary it reports on
C27_Witness ==
    /\ AuditouNoServico
    /\ andamento.pc = "fim"
    /\ retorno # Pendente
    /\ andamento.nao_conformidades # <<>>
    /\ AuditarSped(andamento.tipo_auditoria, andamento.dados_sped) = <<>>


\* processar_documento found the document and has not returned yet
ProcessandoDocumento ==
    /\ chamada.op = "processar_documento"
    /\ andamento # Parado
    /\ andamento.pc = "ler"

\* the status of the document of the call, in a state and in the next one
StatusDoDocumento == documentos[chamada.documento_id].status

(***************************************************************************)
(* C28.  For an existing document, processar_documento moves the persisted *)
(* status from the one it finds ("pendente" after an upload) to            *)
(* "processando" and from there to "processado" or "erro" and to nothing   *)
(* else; once the call has returned the status is neither "processando"    *)
(* nor "pendente", it is "processado" exactly when the result has sucesso  *)
(* = true, and it is "erro" with erro_processamento set exactly when       *)
(* sucesso = false.                                                        *)
(***************************************************************************)
C28_TransicoesDeStatus ==
    /\ [](ProcessandoDocumento =>
             /\ StatusDoDocumento = PROCESSANDO
             /\ retorno = Pendente)
    /\ [](ProcessouDocumento =>
             /\ StatusDoDocumento \notin {PROCESSANDO, PENDENTE}
             /\ StatusDoDocumento = PROCESSADO <=> retorno.sucesso
             /\ ( /\ StatusDoDocumento = ERRO
                  /\ DocumentoDaChamada.erro_processamento # None
                  /\ retorno.erros
                         = <<DocumentoDaChamada.erro_processamento[1]>> )
                   <=> ~retorno.sucesso)
    /\ [][ (chamada.op = "processar_documento"
              /\ chamada.documento_id \in DOMAIN documentos
              /\ StatusDoDocumento' # StatusDoDocumento) =>
              \/ /\ retorno = Pendente /\ retorno' = Pendente
                 /\ andamento = Parado
                 /\ StatusDoDocumento' = PROCESSANDO
              \/ /\ StatusDoDocumento = PROCESSANDO
                 /\ retorno = Pendente /\ retorno' # Pendente
                 /\ StatusDoDocumento' \in {PROCESSADO, ERRO} ]_vars

\* a pending document whose file is missing ended in "erro", with the
\* message stored and sucesso = false
C28_Witness ==
    /\ ProcessouDocumento
    /\ andamento.doc.status = PENDENTE
    /\ StatusDoDocumento = ERRO
    /\ DocumentoDaChamada.erro_processamento # None
    /\ ~retorno.sucesso

\* a pending document ended in "processado", with sucesso = true
C28_WitnessProcessado ==
    /\ ProcessouDocumento
    /\ andamento.doc.status = PENDENTE
    /\ StatusDoDocumento = PROCESSADO
    /\ retorno.sucesso


\* the obligations of db.obrigacoes with the cnpj, type and period of one
\* of them
ObrigacoesDaChave(o) ==
    {i \in 1..Len(obrigacoes) :
        /\ obrigacoes[i].cnpj = o.cnpj
        /\ obrigacoes[i].tipo = o.tipo
        /\ obrigacoes[i].competencia = o.competencia}

(***************************************************************************)
(* C29 as stated.  Under any interleaving of concurrent processar_documento *)
(* calls whose documents extract the same (cnpj, type, periodo_apuracao),  *)
(* db.obrigacoes holds at most one obligation for that key.                *)
(***************************************************************************)
C29_Original ==
    \A i \in 1..Len(obrigacoes) :
        Cardinality(ObrigacoesDaChave(obrigacoes[i])) <= 1

\* both calls have returned and each created an obligation for the same key
C29_Witness ==
    /\ \A t \in Tarefas : retorno[t] # Pendente /\ retorno[t].sucesso
    /\ retorno[1].obrigacao_id # retorno[2].obrigacao_id
    /\ Len(obrigacoes) = 2
    /\ ObrigacoesDaChave(obrigacoes[1]) = {1, 2}


\* a parser read the bytes and its confidence is at least 50
Aceito(parse) ==
    /\ parse.status = "OK"
    /\ parse.data.extraction_confidence.num
          >= 50 * parse.data.extraction_confidence.den

\* processar_documento parsed the bytes and returned
InterpretouPdf == ProcessouDocumento /\ ConteudoLido # None

(***************************************************************************)
(* C30.  _parse_pdf tries the parsers in a fixed order with a threshold of *)
(* 50: the type is DCTFWEB, with the data of the DCTFWeb parser, whenever  *)
(* that parser succeeds with a confidence of at least 50, whatever the DAS *)
(* parser scores; DAS, with the data of the DAS parser, only when the      *)
(* DCTFWeb attempt failed or scored below 50 and the DAS parser scores at  *)
(* least 50; OUTRO otherwise.  An obligation is created or updated only    *)
(* for DCTFWEB and DAS: for OUTRO none is returned and db.obrigacoes is    *)
(* left as it was.                                                         *)
(***************************************************************************)
C30_OrdemDosParsers ==
    /\ [](InterpretouPdf =>
             LET dctfweb == DctfwebParseBytes(ConteudoLido[1])
                 das     == DasParseBytes(ConteudoLido[1])
                 tipo    == retorno.tipo_detectado[1]
             IN  /\ retorno.sucesso
                 /\ tipo \in {DCTFWEB, DAS, OUTRO}
                 /\ tipo = DCTFWEB <=> Aceito(dctfweb)
                 /\ tipo = DAS <=> ~Aceito(dctfweb) /\ Aceito(das)
                 /\ tipo = OUTRO <=> ~Aceito(dctfweb) /\ ~Aceito(das)
                 /\ tipo = DCTFWEB => retorno.dados_extraidos = Some(dctfweb.data)
                 /\ tipo = DAS => retorno.dados_extraidos = Some(das.data)
                 /\ retorno.obrigacao_criada => tipo \in {DCTFWEB, DAS}
                 /\ tipo = OUTRO => retorno.obrigacao_id = None)
    /\ [][ (chamada.op = "processar_documento" /\ obrigacoes' # obrigacoes) =>
              /\ retorno'.status = "OK"
              /\ retorno'.tipo_detectado \in {Some(DCTFWEB), Some(DAS)} ]_vars

\* a PDF both parsers accept: it is taken for a DCTFWeb receipt
C30_Witness ==
    /\ InterpretouPdf
    /\ Aceito(DctfwebParseBytes(ConteudoLido[1]))
    /\ Aceito(DasParseBytes(ConteudoLido[1]))
    /\ DasParseBytes(ConteudoLido[1]).data.extraction_confidence.num = 500
    /\ retorno.tipo_detectado = Some(DCTFWEB)
    /\ retorno.obrigacao_criada

\* a PDF only the DAS parser accepts
C30_WitnessDas ==
    /\ InterpretouPdf
    /\ retorno.tipo_detectado = Some(DAS)
    /\ retorno.obrigacao_criada

\* a PDF neither parser accepts
C30_WitnessOutro ==
    /\ InterpretouPdf
    /\ ConteudoLido[1].legivel
    /\ retorno.tipo_detectado = Some(OUTRO)
    /\ retorno.dados_extraidos[1].cnpj # <<>>
    /\ ~retorno.obrigacao_criada

=============================================================================
